---- MODULE Spec2Model ----
(***************************************************************************)
(* Model of the KubeVirt machine-api provider: the MachineScope mapping    *)
(* (pkg/machinescope), the VM manager (pkg/kubevirt) and the Actuator      *)
(* that wraps it, run against an infra cluster store (secrets, virtual     *)
(* machines, virtual machine instances) and a tenant cluster store (the    *)
(* persisted Machine object).                                              *)
(*                                                                         *)
(* A lifecycle operation (Create, Update, Delete, Exists) is an invocation *)
(* of the Actuator: it starts from the persisted machine and runs one      *)
(* action per remote call, each with the local code around the call.  The  *)
(* record `inv` holds the invocation's position (pc), its local variables, *)
(* the calls in the order issued, the events and the returned error.       *)
(***************************************************************************)
EXTENDS Integers, Sequences, FiniteSets, TLC

VARIABLES
    machine,   \* the Machine object persisted on the tenant cluster
    infra,     \* the infra cluster store: secrets, vms, vmis
    now,       \* the wall clock, in seconds
    inv        \* the invocation under way, or the last one once inv.pc = "done"

vars == <<machine, infra, now, inv>>

----------------------------------------------------------------------------
(* Bounds of the model *)

MaxTime == 30      \* the lifecycle clock stops advancing at MaxTime
TickStep == 15     \* seconds the lifecycle clock advances per tick
MaxRV == 5         \* cap on a stored VM's resourceVersion
MaxClock == 22     \* clock and lastUpdated range of the UpdateAllowed runs
MaxFiles == 2      \* file entries an ignition payload already has, at most

(* Program constants *)

requeueAfterSeconds == 20
gracePeriod == 10
NoGracePeriod == -1    \* DeleteOptions.GracePeriodSeconds left nil
NoTime == -1           \* Status.LastUpdated left nil

MachineName == "m1"
MachineNamespace == "openshift-machine-api"
InfraNamespace == "infra-ns"
InfraID == "infra1"
Nil == "<nil>"         \* a nil *string
NoErr == "nil"         \* a nil error

MachineClusterIDLabel == "machine.openshift.io/cluster-api-cluster"
MachineInstanceTypeLabelName == "machine.openshift.io/instance-type"
MachineInstanceStateAnnotationName == "machine.openshift.io/instance-state"
kubevirtIdAnnotationKey == "VmId"

vmNotCreated == "vmNotCreated"
vmCreatedNotReady == "vmWasCreatedButNotReady"
vmCreatedAndReady == "vmWasCreatedAndReady"

defaultRequestedMemory == "2048M"
defaultRequestedStorage == "35Gi"
defaultPersistentVolumeAccessMode == "ReadWriteMany"
defaultBootVolumeDiskName == "bootvolume"

createEventAction == "Create"
updateEventAction == "Update"
deleteEventAction == "Delete"
noEventAction == ""

ConfigMapInfraNamespaceKeyName == "namespace"
ConfigMapInfraIDKeyName == "infraID"

----------------------------------------------------------------------------
(* Go maps: a missing key reads as the zero value *)

EmptyMap == <<>>

Get(map, k) == IF k \in DOMAIN map THEN map[k] ELSE ""

Put(map, k, v) == (k :> v) @@ map

----------------------------------------------------------------------------
(* pkg/machinescope: the per-reconcile translation context *)

\* providerid.FormatProviderID
FormatProviderID(namespace, name) == "kubevirt://" \o namespace \o "/" \o name

\* utils.BuildLabels
BuildLabels(infraID) == ("tenantcluster-" \o infraID \o "-machine.openshift.io") :> "owned"

\* kubevirtproviderv1alpha1.ProviderSpecFromRawExtension: the raw bytes either
\* decode to a provider spec or do not
ProviderSpecFromRawExtension(raw) ==
    IF raw.decodes THEN [err |-> NoErr, spec |-> raw.value]
    ELSE [err |-> "DecodeError", spec |-> raw.value]

\* the scope built without the check of the cluster label
CreateMachineScopeLabelUnchecked(m, infraNamespace, infraID) ==
    LET dec == ProviderSpecFromRawExtension(m.providerSpec) IN
    IF dec.err # NoErr
    THEN [err |-> "InvalidMachineConfiguration", machine |-> m]
    ELSE [err |-> NoErr, machine |-> m, machineProviderSpec |-> dec.spec,
          infraNamespace |-> infraNamespace, infraID |-> infraID]

CreateMachineScope(m, infraNamespace, infraID) ==
    IF Get(m.labels, MachineClusterIDLabel) = ""
    THEN [err |-> "InvalidMachineConfiguration", machine |-> m]
    ELSE LET dec == ProviderSpecFromRawExtension(m.providerSpec) IN
         IF dec.err # NoErr
         THEN [err |-> "InvalidMachineConfiguration", machine |-> m]
         ELSE [err |-> NoErr, machine |-> m, machineProviderSpec |-> dec.spec,
               infraNamespace |-> infraNamespace, infraID |-> infraID]

\* the mandatory fields checked from the last to the first
assertMandatoryParamsNetworkFirst(s) ==
    CASE s.machineProviderSpec.networkName = "" -> "missing value for NetworkName"
      [] s.machineProviderSpec.ignitionSecretName = "" -> "missing value for IgnitionSecretName"
      [] s.machineProviderSpec.sourcePvcName = "" -> "missing value for SourcePvcName"
      [] OTHER -> NoErr

assertMandatoryParams(s) ==
    CASE s.machineProviderSpec.sourcePvcName = "" -> "missing value for SourcePvcName"
      [] s.machineProviderSpec.ignitionSecretName = "" -> "missing value for IgnitionSecretName"
      [] s.machineProviderSpec.networkName = "" -> "missing value for NetworkName"
      [] OTHER -> NoErr

buildBootVolumeName(virtualMachineName) ==
    virtualMachineName \o "-" \o defaultBootVolumeDiskName

buildIgnitionSecretName(virtualMachineName) == virtualMachineName \o "-ignition"

\* apiresource.MustParse: the quantity a string denotes, or a panic when the
\* string is no quantity
ParsableQuantities == { "2048M", "35Gi", "4096M", "50Gi" }

MustParse(str) == [panic |-> str \notin ParsableQuantities, quantity |-> str]

\* the cloud-init disk referencing the secret the provider spec names
buildVMITemplateTenantSecretName(s, namespace) ==
    [isNil |-> FALSE,
     labels |-> ("kubevirt.io/vm" :> s.machine.name) @@ ("name" :> s.machine.name),
     volumes |-> << [name |-> "datavolumedisk1", kind |-> "DataVolume",
                     ref |-> buildBootVolumeName(s.machine.name)],
                    [name |-> "cloudinitdisk", kind |-> "CloudInitConfigDrive",
                     ref |-> s.machineProviderSpec.ignitionSecretName] >>,
     networks |-> << [name |-> "main", multus |-> s.machineProviderSpec.networkName] >>,
     memory |-> IF s.machineProviderSpec.requestedMemory = ""
                THEN defaultRequestedMemory
                ELSE s.machineProviderSpec.requestedMemory,
     disks |-> << [name |-> "datavolumedisk1", bus |-> "virtio"],
                  [name |-> "cloudinitdisk", bus |-> "virtio"] >>,
     interfaces |-> << [name |-> "main", binding |-> "bridge"] >>,
     machineType |-> ""]

buildVMITemplate(s, namespace) ==
    [isNil |-> FALSE,
     labels |-> ("kubevirt.io/vm" :> s.machine.name) @@ ("name" :> s.machine.name),
     volumes |-> << [name |-> "datavolumedisk1", kind |-> "DataVolume",
                     ref |-> buildBootVolumeName(s.machine.name)],
                    [name |-> "cloudinitdisk", kind |-> "CloudInitConfigDrive",
                     ref |-> buildIgnitionSecretName(s.machine.name)] >>,
     networks |-> << [name |-> "main", multus |-> s.machineProviderSpec.networkName] >>,
     memory |-> IF s.machineProviderSpec.requestedMemory = ""
                THEN defaultRequestedMemory
                ELSE s.machineProviderSpec.requestedMemory,
     disks |-> << [name |-> "datavolumedisk1", bus |-> "virtio"],
                  [name |-> "cloudinitdisk", bus |-> "virtio"] >>,
     interfaces |-> << [name |-> "main", binding |-> "bridge"] >>,
     machineType |-> ""]

buildBootVolumeDataVolumeTemplate(virtualMachineName, pvcName, dvNamespace, storageClassName, pvcRequestsStorage, accessMode) ==
    [name |-> buildBootVolumeName(virtualMachineName),
     namespace |-> dvNamespace,
     sourcePvc |-> [name |-> pvcName, namespace |-> dvNamespace],
     accessModes |-> << accessMode >>,
     storage |-> pvcRequestsStorage,
     storageClassName |-> storageClassName]

\* the value returned next to a non-nil error
NilTemplate == [isNil |-> TRUE, machineType |-> ""]

NilVM == [name |-> "", namespace |-> "", labels |-> EmptyMap, annotations |-> EmptyMap,
          uid |-> "", resourceVersion |-> 0,
          status |-> [created |-> FALSE, ready |-> FALSE],
          spec |-> [runStrategy |-> "", dataVolumeTemplates |-> <<>>,
                    template |-> NilTemplate]]

ValidAccessModes == {"ReadWriteMany", "ReadOnlyMany", "ReadWriteOnce"}

\* the base labels written over the machine's labels
CreateVirtualMachineFromMachineBaseLabelsWin(s) ==
    LET mandatory == assertMandatoryParams(s)
        spec == s.machineProviderSpec
        pvcRequestsStorage == IF spec.requestedStorage = ""
                              THEN defaultRequestedStorage
                              ELSE spec.requestedStorage
        PVCAccessMode == IF spec.persistentVolumeAccessMode = ""
                         THEN defaultPersistentVolumeAccessMode
                         ELSE spec.persistentVolumeAccessMode
        vmiTemplate == buildVMITemplate(s, s.infraNamespace)
    IN  IF mandatory # NoErr THEN [panic |-> FALSE, err |-> mandatory, vm |-> NilVM]
        ELSE IF MustParse(vmiTemplate.memory).panic
        THEN [panic |-> TRUE, err |-> NoErr, vm |-> NilVM]
        ELSE IF PVCAccessMode \notin ValidAccessModes
        THEN [panic |-> FALSE,
              err |-> "Value of PersistentVolumeAccessMode, can be only one of", vm |-> NilVM]
        ELSE IF MustParse(pvcRequestsStorage).panic
        THEN [panic |-> TRUE, err |-> NoErr, vm |-> NilVM]
        ELSE [panic |-> FALSE, err |-> NoErr,
              vm |-> [name |-> s.machine.name,
                      namespace |-> s.infraNamespace,
                      labels |-> BuildLabels(s.infraID) @@ s.machine.labels,
                      annotations |-> s.machine.annotations,
                      uid |-> "",
                      resourceVersion |-> 0,
                      status |-> [created |-> FALSE, ready |-> FALSE],
                      spec |-> [runStrategy |-> "Always",
                                dataVolumeTemplates |->
                                    << buildBootVolumeDataVolumeTemplate(
                                           s.machine.name, spec.sourcePvcName,
                                           s.infraNamespace, spec.storageClassName,
                                           pvcRequestsStorage, PVCAccessMode) >>,
                                template |-> vmiTemplate]]]

CreateVirtualMachineFromMachine(s) ==
    LET mandatory == assertMandatoryParams(s)
        spec == s.machineProviderSpec
        pvcRequestsStorage == IF spec.requestedStorage = ""
                              THEN defaultRequestedStorage
                              ELSE spec.requestedStorage
        PVCAccessMode == IF spec.persistentVolumeAccessMode = ""
                         THEN defaultPersistentVolumeAccessMode
                         ELSE spec.persistentVolumeAccessMode
        vmiTemplate == buildVMITemplate(s, s.infraNamespace)
    IN  IF mandatory # NoErr THEN [panic |-> FALSE, err |-> mandatory, vm |-> NilVM]
        ELSE IF MustParse(vmiTemplate.memory).panic
        THEN [panic |-> TRUE, err |-> NoErr, vm |-> NilVM]
        ELSE IF PVCAccessMode \notin ValidAccessModes
        THEN [panic |-> FALSE,
              err |-> "Value of PersistentVolumeAccessMode, can be only one of", vm |-> NilVM]
        ELSE IF MustParse(pvcRequestsStorage).panic
        THEN [panic |-> TRUE, err |-> NoErr, vm |-> NilVM]
        ELSE [panic |-> FALSE, err |-> NoErr,
              vm |-> [name |-> s.machine.name,
                      namespace |-> s.infraNamespace,
                      labels |-> s.machine.labels @@ BuildLabels(s.infraID),
                      annotations |-> s.machine.annotations,
                      uid |-> "",
                      resourceVersion |-> 0,
                      status |-> [created |-> FALSE, ready |-> FALSE],
                      spec |-> [runStrategy |-> "Always",
                                dataVolumeTemplates |->
                                    << buildBootVolumeDataVolumeTemplate(
                                           s.machine.name, spec.sourcePvcName,
                                           s.infraNamespace, spec.storageClassName,
                                           pvcRequestsStorage, PVCAccessMode) >>,
                                template |-> vmiTemplate]]]

\* UpdateAllowed reads the clock itself: the caller's time.Now() is `t`
UpdateAllowedBoundaryIncluded(m, interval, t) ==
    /\ m.providerID # Nil
    /\ m.providerID # ""
    /\ (m.status.lastUpdated = NoTime \/ m.status.lastUpdated + interval >= t)

UpdateAllowedNoProviderIDCheck(m, interval, t) ==
    m.status.lastUpdated = NoTime \/ m.status.lastUpdated + interval > t

UpdateAllowedOnceIntervalPassed(m, interval, t) ==
    /\ m.providerID # Nil
    /\ m.providerID # ""
    /\ (m.status.lastUpdated = NoTime \/ t > m.status.lastUpdated + interval)

UpdateAllowed(m, interval, t) ==
    /\ m.providerID # Nil
    /\ m.providerID # ""
    /\ (m.status.lastUpdated = NoTime \/ m.status.lastUpdated + interval > t)

CreateIgnitionSecretFromMachine(s, userData) ==
    [name |-> buildIgnitionSecretName(s.machine.name),
     namespace |-> s.infraNamespace,
     labels |-> BuildLabels(s.infraID),
     data |-> ("userdata" :> userData)]

\* syncProviderID keeping whatever providerID the machine already has
syncProviderIDOnlyWhenUnset(m, vm) ==
    IF m.providerID # Nil
    THEN m
    ELSE [m EXCEPT !.providerID = FormatProviderID(vm.namespace, vm.name)]

syncProviderID(m, vm) ==
    LET providerID == FormatProviderID(vm.namespace, vm.name) IN
    IF m.providerID # Nil /\ m.providerID = providerID
    THEN m
    ELSE [m EXCEPT !.providerID = providerID]

\* the state derived from the ready flag without looking at created first
syncMachineAnnotationsAndLabelsReadyFirst(m, vm) ==
    LET vmState == IF vm.status.ready THEN vmCreatedAndReady
                   ELSE IF vm.status.created THEN vmCreatedNotReady
                   ELSE vmNotCreated
        m1 == [m EXCEPT !.annotations = Put(@, kubevirtIdAnnotationKey, vm.uid)]
        m2 == IF ~vm.spec.template.isNil
              THEN [m1 EXCEPT !.labels = Put(@, MachineInstanceTypeLabelName,
                                              vm.spec.template.machineType)]
              ELSE m1
    IN  [m2 EXCEPT !.annotations = Put(@, MachineInstanceStateAnnotationName, vmState)]

\* the instance-type label written as empty when the VM has no template
syncMachineAnnotationsAndLabelsTypeOfNoTemplate(m, vm) ==
    LET vmState == IF vm.status.created
                   THEN (IF vm.status.ready THEN vmCreatedAndReady ELSE vmCreatedNotReady)
                   ELSE vmNotCreated
        m1 == [m EXCEPT !.annotations = Put(@, kubevirtIdAnnotationKey, vm.uid)]
        m2 == IF ~vm.spec.template.isNil
              THEN [m1 EXCEPT !.labels = Put(@, MachineInstanceTypeLabelName,
                                              vm.spec.template.machineType)]
              ELSE [m1 EXCEPT !.labels = Put(@, MachineInstanceTypeLabelName, "")]
    IN  [m2 EXCEPT !.annotations = Put(@, MachineInstanceStateAnnotationName, vmState)]

syncMachineAnnotationsAndLabels(m, vm) ==
    LET vmState == IF vm.status.created
                   THEN (IF vm.status.ready THEN vmCreatedAndReady ELSE vmCreatedNotReady)
                   ELSE vmNotCreated
        m1 == [m EXCEPT !.annotations = Put(@, kubevirtIdAnnotationKey, vm.uid)]
        m2 == IF ~vm.spec.template.isNil
              THEN [m1 EXCEPT !.labels = Put(@, MachineInstanceTypeLabelName,
                                              vm.spec.template.machineType)]
              ELSE m1
    IN  [m2 EXCEPT !.annotations = Put(@, MachineInstanceStateAnnotationName, vmState)]

RECURSIVE IPv4Addresses(_)
IPv4Addresses(ips) ==
    IF ips = <<>> THEN <<>>
    ELSE (IF Head(ips).v4
          THEN << [type |-> "InternalIP", address |-> Head(ips).address] >>
          ELSE <<>>) \o IPv4Addresses(Tail(ips))

\* net.LookupIP(vmi.Name) is the input `lookup`: [err, ips]
\* every resolved address kept, whatever its family
syncNetworkAddressesEveryFamily(m, vmi, lookup) ==
    LET dns == << [type |-> "InternalDNS", address |-> vmi.name] >>
        all == [n \in 1..Len(lookup.ips) |->
                  [type |-> "InternalIP", address |-> lookup.ips[n].address]]
        networkAddresses == IF lookup.err = NoErr THEN dns \o all ELSE dns
    IN  [m EXCEPT !.status.addresses = networkAddresses]

\* the addresses added to the ones the machine already has
syncNetworkAddressesAppending(m, vmi, lookup) ==
    LET dns == << [type |-> "InternalDNS", address |-> vmi.name] >>
        networkAddresses == IF lookup.err = NoErr
                            THEN dns \o IPv4Addresses(lookup.ips)
                            ELSE dns
    IN  [m EXCEPT !.status.addresses = @ \o networkAddresses]

syncNetworkAddresses(m, vmi, lookup) ==
    LET dns == << [type |-> "InternalDNS", address |-> vmi.name] >>
        networkAddresses == IF lookup.err = NoErr
                            THEN dns \o IPv4Addresses(lookup.ips)
                            ELSE dns
    IN  [m EXCEPT !.status.addresses = networkAddresses]

\* RawExtensionFromProviderStatus either encodes the VM status or fails
syncProviderStatus(m, vm, encodes) ==
    IF ~encodes
    THEN [err |-> "InvalidMachineConfiguration", machine |-> m]
    ELSE [err |-> NoErr,
          machine |-> [m EXCEPT !.status.providerStatus =
                          [isNil |-> FALSE, created |-> vm.status.created,
                           ready |-> vm.status.ready]]]

SyncMachine(m, vm, vmi, lookup, encodes) ==
    LET m1 == syncProviderID(m, vm)
        m2 == syncMachineAnnotationsAndLabels(m1, vm)
        m3 == syncNetworkAddresses(m2, vmi, lookup)
    IN  syncProviderStatus(m3, vm, encodes)

----------------------------------------------------------------------------
(* pkg/clients/infracluster, against the infra cluster store.               *)
(* infra = [secrets, vms, vmis], each a map keyed by <<namespace, name>>.   *)
(* Every call takes the store and `fault`, whether the call fails for a     *)
(* reason of its own (the network, the API server), and returns the error,  *)
(* the object read or written and the store as the call leaves it.          *)

Key(namespace, name) == << namespace, name >>

Without(map, k) == [x \in DOMAIN map \ {k} |-> map[x]]

\* the remote store's view of two objects being the same but for the version
SameContent(a, b) ==
    [a EXCEPT !.resourceVersion = 0, !.uid = ""] = [b EXCEPT !.resourceVersion = 0, !.uid = ""]

CreateSecret(store, namespace, newSecret, fault) ==
    LET k == Key(namespace, newSecret.name)
        res == IF fault THEN "Transient"
               ELSE IF k \in DOMAIN store.secrets THEN "AlreadyExists"
               ELSE NoErr
    IN  [err |-> res,
         infra |-> IF res = NoErr
                   THEN [store EXCEPT !.secrets = (k :> newSecret) @@ @]
                   ELSE store]

CreateVirtualMachine(store, namespace, newVM, fault) ==
    LET k == Key(namespace, newVM.name)
        res == IF fault THEN "Transient"
               ELSE IF k \in DOMAIN store.vms THEN "AlreadyExists"
               ELSE NoErr
        created == [newVM EXCEPT !.uid = "uid-" \o newVM.name, !.resourceVersion = 1]
    IN  [err |-> res,
         vm |-> IF res = NoErr THEN created ELSE NilVM,
         infra |-> IF res = NoErr
                   THEN [store EXCEPT !.vms = (k :> created) @@ @]
                   ELSE store]

GetVirtualMachine(store, namespace, name, fault) ==
    LET k == Key(namespace, name)
        res == IF fault THEN "Transient"
               ELSE IF k \notin DOMAIN store.vms THEN "NotFound"
               ELSE NoErr
    IN  [err |-> res,
         vm |-> IF res = NoErr THEN store.vms[k] ELSE NilVM,
         infra |-> store]

UpdateVirtualMachine(store, namespace, vm, fault) ==
    LET k == Key(namespace, vm.name)
        found == k \in DOMAIN store.vms
        stored == IF found THEN store.vms[k] ELSE NilVM
        res == IF fault THEN "Transient"
               ELSE IF ~found THEN "NotFound"
               ELSE IF stored.resourceVersion # vm.resourceVersion THEN "Conflict"
               ELSE NoErr
        updated == IF SameContent(stored, vm) THEN stored
                   ELSE [vm EXCEPT !.uid = stored.uid,
                                   !.resourceVersion = stored.resourceVersion + 1]
    IN  [err |-> res,
         vm |-> IF res = NoErr THEN updated ELSE NilVM,
         infra |-> IF res = NoErr
                   THEN [store EXCEPT !.vms = (k :> updated) @@ @]
                   ELSE store]

\* deleteResource sends an empty DeleteOptions whatever options it is given;
\* `sent` is the grace period that reaches the store
deleteResource(store, namespace, name, options, fault) ==
    LET k == Key(namespace, name)
        res == IF fault THEN "Transient"
               ELSE IF k \notin DOMAIN store.vms THEN "NotFound"
               ELSE NoErr
    IN  [err |-> res,
         sent |-> NoGracePeriod,
         infra |-> IF res = NoErr
                   THEN [store EXCEPT !.vms = Without(@, k), !.vmis = Without(@, k)]
                   ELSE store]

DeleteVirtualMachine(store, namespace, name, options, fault) ==
    deleteResource(store, namespace, name, options, fault)

NilVMI == [name |-> "", namespace |-> ""]

GetVirtualMachineInstance(store, namespace, name, fault) ==
    LET k == Key(namespace, name)
        res == IF fault THEN "Transient"
               ELSE IF k \notin DOMAIN store.vmis THEN "NotFound"
               ELSE NoErr
    IN  [err |-> res,
         vmi |-> IF res = NoErr THEN store.vmis[k] ELSE NilVMI,
         infra |-> store]

----------------------------------------------------------------------------
(* The tenant cluster client, as the Actuator uses it *)

\* GetSecret(name, namespace): `outcome` is what the tenant cluster answers
\* ("ok", "nokey", "notfound", "error") and `payload` the user data it holds
GetSecret(name, namespace, outcome, payload) ==
    [err |-> CASE outcome = "notfound" -> "NotFound"
               [] outcome = "error" -> "Transient"
               [] OTHER -> NoErr,
     hasUserData |-> outcome = "ok",
     userData |-> payload]

\* PatchMachine(new, old) persists the metadata and spec of the in-memory
\* machine and reads the persisted object back into it, status included
PatchMachine(persisted, m, originMachineCopy, fault) ==
    LET res == IF fault THEN "Transient" ELSE NoErr
        written == [m EXCEPT !.status = persisted.status]
    IN  [err |-> res,
         m |-> IF res = NoErr THEN written ELSE m,
         tenant |-> IF res = NoErr THEN written ELSE persisted]

\* StatusPatchMachine(new, old) persists the status of the in-memory machine
StatusPatchMachine(persisted, m, originMachineCopy, fault) ==
    LET res == IF fault THEN "Transient" ELSE NoErr IN
    [err |-> res,
     m |-> m,
     tenant |-> IF res = NoErr THEN [persisted EXCEPT !.status = m.status] ELSE persisted]

----------------------------------------------------------------------------
(* pkg/kubevirt: helpers of the VM manager *)

\* a JSON document as far as addHostnameToUserData looks into it: whether it
\* decodes to an object, whether the object has "storage", whether storage
\* has "files", and the file entries
HostnameFile(hostname) ==
    [filesystem |-> "root", path |-> "/etc/hostname", mode |-> 420,
     source |-> "data:," \o hostname]

\* json.Unmarshal's error is dropped: a payload that is no JSON object leaves
\* dataMap nil and the store into it panics; "files" decoded from JSON is a
\* []interface{}, so the assertion to []map[string]interface{} panics
addHostnameToUserData(src, hostname) ==
    IF ~src.isObject THEN [panic |-> TRUE, err |-> NoErr, data |-> src]
    ELSE IF src.hasStorage /\ src.hasFiles THEN [panic |-> TRUE, err |-> NoErr, data |-> src]
    ELSE [panic |-> FALSE, err |-> NoErr,
          data |-> [src EXCEPT !.hasStorage = TRUE, !.hasFiles = TRUE,
                               !.files = Append(<<>>, HostnameFile(hostname))]]

----------------------------------------------------------------------------
(* The Actuator's error handling *)

Event(type, reason) == [type |-> type, reason |-> reason]

createMachineScope(m) == CreateMachineScope(m, InfraNamespace, InfraID)

\* handleMachineError raising no event
handleMachineErrorWithoutEvent(m, err, eventAction) ==
    [ret |-> createMachineScope(m).err, events |-> <<>>]

\* `machineScope, err := a.createMachineScope(machine)` assigns the parameter
\* err: what is logged, sent as the event and returned is the error of the
\* scope construction, not the error handed in
handleMachineError(m, err, eventAction) ==
    LET sc == createMachineScope(m) IN
    IF sc.err # NoErr
    THEN [ret |-> sc.err, events |-> <<>>]
    ELSE [ret |-> sc.err,
          events |-> IF eventAction # noEventAction
                     THEN << Event("Warning", "Failed" \o eventAction) >>
                     ELSE <<>>]

----------------------------------------------------------------------------
(* The machines and inputs the model draws from *)

ProviderSpec(pvc, ign, net) ==
    [sourcePvcName |-> pvc, ignitionSecretName |-> ign, networkName |-> net,
     requestedMemory |-> "", requestedCPU |-> 0, requestedStorage |-> "",
     storageClassName |-> "", persistentVolumeAccessMode |-> ""]

NewMachine(labels, raw, lastUpdated) ==
    [name |-> MachineName, namespace |-> MachineNamespace,
     labels |-> labels, annotations |-> EmptyMap,
     providerID |-> Nil, providerSpec |-> raw,
     status |-> [lastUpdated |-> lastUpdated,
                 providerStatus |-> [isNil |-> TRUE, created |-> FALSE, ready |-> FALSE],
                 addresses |-> <<>>]]

ClusterLabels == (MachineClusterIDLabel :> "cluster1")

DecodableSpecs ==
    { [decodes |-> TRUE, value |-> ProviderSpec(pvc, ign, net)] :
        pvc \in {"", "rhcos-pvc"}, ign \in {"", "worker-user-data"}, net \in {"", "multus-net"} }

UndecodableSpec == [decodes |-> FALSE, value |-> ProviderSpec("", "", "")]

InitialMachines ==
    { NewMachine(ClusterLabels, raw, lu) : raw \in DecodableSpecs \cup {UndecodableSpec},
                                           lu \in {NoTime, 0} }
    \cup { NewMachine(labels, [decodes |-> TRUE,
                               value |-> ProviderSpec("rhcos-pvc", "worker-user-data", "multus-net")],
                      NoTime) : labels \in { EmptyMap, MachineClusterIDLabel :> "" } }
    \cup { NewMachine(ClusterLabels,
                      [decodes |-> TRUE,
                       value |-> [ProviderSpec("rhcos-pvc", "worker-user-data", "multus-net")
                                    EXCEPT !.requestedMemory = "lots"]],
                      NoTime) }

Payload(isObject, hasStorage, hasFiles) ==
    [isObject |-> isObject, hasStorage |-> hasStorage, hasFiles |-> hasFiles,
     files |-> IF hasFiles
               THEN << [filesystem |-> "root", path |-> "/etc/motd", mode |-> 420,
                        source |-> "data:,hello"] >>
               ELSE <<>>]

PlainPayload == Payload(TRUE, FALSE, FALSE)

Payloads == { PlainPayload, Payload(TRUE, TRUE, FALSE), Payload(TRUE, TRUE, TRUE),
              Payload(FALSE, FALSE, FALSE) }

\* what the tenant cluster answers to GetSecret: a secret cannot be stored
\* under an empty name
SecretAnswers(name) ==
    { << o, PlainPayload >> : o \in {"notfound", "error"} }
    \cup (IF name = "" THEN {}
          ELSE { << "nokey", PlainPayload >> } \cup { << "ok", p >> : p \in Payloads })

Resolved == [err |-> NoErr, ips |-> << [address |-> "10.0.0.5", v4 |-> TRUE],
                                       [address |-> "fe80::1", v4 |-> FALSE] >>]

Unresolved == [err |-> "no such host", ips |-> <<>>]

Lookups == { Resolved, Unresolved }

----------------------------------------------------------------------------
(* The construction of the Actuator *)

NilActuator == [isNil |-> TRUE, infraID |-> "", infraNamespace |-> ""]

\* what GetConfigMapValue returned: an error, or the map under the "config" key
NoConfigMap == [err |-> NoErr, value |-> EmptyMap]

New(read) ==
    IF read.err # NoErr
    THEN [actuator |-> NilActuator, err |-> NoErr]
    ELSE IF ConfigMapInfraIDKeyName \notin DOMAIN read.value
    THEN [actuator |-> NilActuator, err |-> "InvalidMachineConfiguration"]
    ELSE IF ConfigMapInfraNamespaceKeyName \notin DOMAIN read.value
    THEN [actuator |-> NilActuator, err |-> "InvalidMachineConfiguration"]
    ELSE [actuator |-> [isNil |-> FALSE,
                        infraID |-> read.value[ConfigMapInfraIDKeyName],
                        infraNamespace |-> read.value[ConfigMapInfraNamespaceKeyName]],
          err |-> NoErr]

----------------------------------------------------------------------------
(* The invocation record *)

\* no machine: the base of a patch that was not attempted
NoMachine == [NewMachine(EmptyMap, UndecodableSpec, NoTime) EXCEPT !.name = ""]

Call(call, target, namespace, name, grace, res) ==
    [call |-> call, target |-> target, namespace |-> namespace, name |-> name,
     grace |-> grace, res |-> res]

Local(step, res) == Call(step, "local", "", "", NoGracePeriod, res)

Fresh(op, m, t) ==
    [op |-> op, pc |-> "idle", origin |-> m, m |-> m,
     spec |-> ProviderSpec("", "", ""), userData |-> Payload(FALSE, FALSE, FALSE),
     vm |-> NilVM, existingVM |-> NilVM, submitted |-> NilVM,
     patchBase |-> NoMachine, statusPatchBase |-> NoMachine,
     prevRV |-> 0, wasUpdated |-> FALSE,
     mgrCalled |-> FALSE, mgrErr |-> NoErr, patchErr |-> NoErr,
     ret |-> NoErr, events |-> <<>>, calls |-> <<>>, exists |-> FALSE,
     interval |-> 0, allowed |-> FALSE, at |-> t,
     lookup |-> Unresolved, encodes |-> TRUE,
     fullUserData |-> Payload(FALSE, FALSE, FALSE), userDataErr |-> NoErr,
     cMap |-> NoConfigMap, actuator |-> NilActuator]

\* the scope of the invocation: the in-memory machine and the decoded spec
Scope(i) ==
    [machine |-> i.m, machineProviderSpec |-> i.spec,
     infraNamespace |-> InfraNamespace, infraID |-> InfraID]

Idle == inv.pc \in {"idle", "done", "panicked"}

\* a panic unwinds the invocation: nothing after it runs
Panicked(i) == [i EXCEPT !.pc = "panicked", !.ret = "panic"]

\* the entry of every Actuator operation: the deep copy of the machine and
\* the scope; a scope error is returned as it is
Begin(op, first) ==
    LET sc == createMachineScope(machine)
        i == Fresh(op, machine, now)
    IN  IF sc.err # NoErr
        THEN [i EXCEPT !.pc = "done", !.ret = sc.err]
        ELSE [i EXCEPT !.pc = first, !.spec = sc.machineProviderSpec]

\* the end of Actuator.Create, after patchMachine
CreateReturn(i) ==
    LET err == IF i.patchErr # NoErr THEN i.patchErr ELSE i.mgrErr
        h == handleMachineError(i.m, err, createEventAction)
    IN  IF err # NoErr
        THEN [i EXCEPT !.pc = "done", !.ret = h.ret, !.events = h.events]
        ELSE [i EXCEPT !.pc = "done", !.ret = NoErr,
                       !.events = << Event("Normal", createEventAction) >>]

\* the end of Actuator.Update, after patchMachine
\* Actuator.Update raising its event whether or not the VM was modified
UpdateReturnAlwaysEvent(i) ==
    LET err == IF i.patchErr # NoErr THEN i.patchErr ELSE i.mgrErr
        h == handleMachineError(i.m, err, updateEventAction)
    IN  IF err # NoErr
        THEN [i EXCEPT !.pc = "done", !.ret = h.ret, !.events = h.events]
        ELSE [i EXCEPT !.pc = "done", !.ret = NoErr,
                       !.events = << Event("Normal", updateEventAction) >>]

UpdateReturn(i) ==
    LET err == IF i.patchErr # NoErr THEN i.patchErr ELSE i.mgrErr
        h == handleMachineError(i.m, err, updateEventAction)
    IN  IF err # NoErr
        THEN [i EXCEPT !.pc = "done", !.ret = h.ret, !.events = h.events]
        ELSE [i EXCEPT !.pc = "done", !.ret = NoErr,
                       !.events = IF i.wasUpdated
                                  THEN << Event("Normal", updateEventAction) >>
                                  ELSE <<>>]

Return(i) == IF i.op = "Create" THEN CreateReturn(i) ELSE UpdateReturn(i)

\* the end of Actuator.Delete, after the manager's Delete
\* Delete taking the providerID off the machine once the manager is through
DeleteReturnClearingProviderID(i) ==
    LET h == handleMachineError(i.m, i.mgrErr, deleteEventAction) IN
    IF i.mgrErr # NoErr
    THEN [i EXCEPT !.pc = "done", !.ret = h.ret, !.events = h.events]
    ELSE [i EXCEPT !.pc = "done", !.ret = NoErr, !.m.providerID = Nil,
                   !.events = << Event("Normal", deleteEventAction) >>]

DeleteReturn(i) ==
    LET h == handleMachineError(i.m, i.mgrErr, deleteEventAction) IN
    IF i.mgrErr # NoErr
    THEN [i EXCEPT !.pc = "done", !.ret = h.ret, !.events = h.events]
    ELSE [i EXCEPT !.pc = "done", !.ret = NoErr,
                   !.events = << Event("Normal", deleteEventAction) >>]

\* the Actuator returning on the manager's error before patching
FailedSkippingPatch(i, calls, err) ==
    Return([i EXCEPT !.calls = @ \o calls, !.mgrErr = err])

\* the manager failed: its error is kept and the Actuator goes on to patch
\* the manager issuing a call that failed transiently once more
FailedRetryingOnce(i, calls, err) ==
    IF err = "Transient" /\ \A n \in 1..Len(i.calls) : i.calls[n].res # "Transient"
    THEN [i EXCEPT !.calls = @ \o calls]
    ELSE [i EXCEPT !.calls = @ \o calls, !.mgrErr = err, !.pc = "PatchMachine"]

Failed(i, calls, err) ==
    [i EXCEPT !.calls = @ \o calls, !.mgrErr = err, !.pc = "PatchMachine"]

----------------------------------------------------------------------------
(* The state machine *)

Init ==
    /\ machine \in InitialMachines
    /\ infra = [secrets |-> EmptyMap, vms |-> EmptyMap, vmis |-> EmptyMap]
    /\ now = 0
    /\ inv = Fresh("none", machine, 0)

(* Actuator.Create *)

CreateBegin ==
    /\ Idle
    /\ inv' = Begin("Create", "GetSecret")
    /\ UNCHANGED << machine, infra, now >>

\* getUserData and the error return that follows it
getUserData(s, answer) ==
    LET g == GetSecret(s.machineProviderSpec.ignitionSecretName, s.machine.namespace,
                       answer[1], answer[2])
    IN  IF g.err = "NotFound" THEN [err |-> "InvalidMachineConfiguration", res |-> g.err, data |-> g.userData]
        ELSE IF g.err # NoErr THEN [err |-> g.err, res |-> g.err, data |-> g.userData]
        ELSE IF ~g.hasUserData THEN [err |-> "InvalidMachineConfiguration", res |-> g.err, data |-> g.userData]
        ELSE [err |-> NoErr, res |-> g.err, data |-> g.userData]

\* Actuator.Create going on with empty user data when the secret lacks the key
CreateGetUserDataMissingKeyIgnored ==
    /\ inv.pc = "GetSecret"
    /\ \E answer \in SecretAnswers(inv.spec.ignitionSecretName) :
         LET ud == getUserData(Scope(inv), answer)
             h == handleMachineError(inv.m, ud.err, createEventAction)
             c == Call("GetSecret", "tenant", inv.m.namespace,
                       inv.spec.ignitionSecretName, NoGracePeriod, ud.res)
         IN  inv' = IF ud.err # NoErr /\ ud.res # NoErr
                    THEN [inv EXCEPT !.calls = Append(@, c), !.pc = "done",
                                     !.userDataErr = ud.err,
                                     !.ret = h.ret, !.events = h.events]
                    ELSE [inv EXCEPT !.calls = Append(@, c), !.pc = "CreateSecret",
                                     !.userDataErr = ud.err,
                                     !.userData = ud.data]
    /\ UNCHANGED << machine, infra, now >>

CreateGetUserData ==
    /\ inv.pc = "GetSecret"
    /\ \E answer \in SecretAnswers(inv.spec.ignitionSecretName) :
         LET ud == getUserData(Scope(inv), answer)
             h == handleMachineError(inv.m, ud.err, createEventAction)
             c == Call("GetSecret", "tenant", inv.m.namespace,
                       inv.spec.ignitionSecretName, NoGracePeriod, ud.res)
         IN  inv' = IF ud.err # NoErr
                    THEN [inv EXCEPT !.calls = Append(@, c), !.pc = "done",
                                     !.userDataErr = ud.err,
                                     !.ret = h.ret, !.events = h.events]
                    ELSE [inv EXCEPT !.calls = Append(@, c), !.pc = "CreateSecret",
                                     !.userDataErr = ud.err,
                                     !.userData = ud.data]
    /\ UNCHANGED << machine, infra, now >>

(* manager.Create *)

\* manager.Create going on to build and create the VM after CreateSecret failed
mgrCreateSecretErrorDropped ==
    /\ inv.pc = "CreateSecret"
    /\ \E fault \in BOOLEAN :
         LET full == addHostnameToUserData(inv.userData, inv.m.name)
             secretFromMachine == CreateIgnitionSecretFromMachine(Scope(inv), full.data)
             cs == CreateSecret(infra, secretFromMachine.namespace, secretFromMachine, fault)
             c == Call("CreateSecret", "infra", secretFromMachine.namespace,
                       secretFromMachine.name, NoGracePeriod, cs.err)
             i == [inv EXCEPT !.mgrCalled = TRUE,
                              !.fullUserData = IF full.panic THEN @ ELSE full.data]
         IN  IF full.panic
             THEN /\ inv' = [i EXCEPT !.pc = "panicked", !.ret = "panic"]
                  /\ infra' = infra
             ELSE /\ inv' = [i EXCEPT !.calls = Append(@, c), !.pc = "CreateVM"]
                  /\ infra' = cs.infra
    /\ UNCHANGED << machine, now >>

mgrCreateSecret ==
    /\ inv.pc = "CreateSecret"
    /\ \E fault \in BOOLEAN :
         LET full == addHostnameToUserData(inv.userData, inv.m.name)
             secretFromMachine == CreateIgnitionSecretFromMachine(Scope(inv), full.data)
             cs == CreateSecret(infra, secretFromMachine.namespace, secretFromMachine, fault)
             c == Call("CreateSecret", "infra", secretFromMachine.namespace,
                       secretFromMachine.name, NoGracePeriod, cs.err)
             i == [inv EXCEPT !.mgrCalled = TRUE,
                              !.fullUserData = IF full.panic THEN @ ELSE full.data]
         IN  IF full.panic
             THEN /\ inv' = [i EXCEPT !.pc = "panicked", !.ret = "panic"]
                  /\ infra' = infra
             ELSE /\ inv' = IF cs.err # NoErr THEN Failed(i, << c >>, cs.err)
                            ELSE [i EXCEPT !.calls = Append(@, c), !.pc = "CreateVM"]
                  /\ infra' = cs.infra
    /\ UNCHANGED << machine, now >>

\* manager.Create writing the providerID as soon as the VM is created
mgrCreateVMSettingProviderID ==
    /\ inv.pc = "CreateVM"
    /\ \E fault \in BOOLEAN :
         LET b == CreateVirtualMachineFromMachine(Scope(inv))
             cv == CreateVirtualMachine(infra, b.vm.namespace, b.vm, fault)
             c == Call("CreateVM", "infra", b.vm.namespace, b.vm.name, NoGracePeriod, cv.err)
         IN  IF b.panic
             THEN /\ inv' = Panicked(inv)
                  /\ infra' = infra
             ELSE IF b.err # NoErr
             THEN /\ inv' = Failed(inv, << Local("BuildVM", b.err) >>, b.err)
                  /\ infra' = infra
             ELSE /\ inv' = IF cv.err # NoErr
                            THEN Failed(inv, << Local("BuildVM", NoErr), c >>, cv.err)
                            ELSE [inv EXCEPT !.calls = @ \o << Local("BuildVM", NoErr), c >>,
                                             !.vm = cv.vm, !.pc = "GetVMInstance",
                                             !.m.providerID =
                                                 FormatProviderID(cv.vm.namespace, cv.vm.name)]
                  /\ infra' = cv.infra
    /\ UNCHANGED << machine, now >>

mgrCreateVM ==
    /\ inv.pc = "CreateVM"
    /\ \E fault \in BOOLEAN :
         LET b == CreateVirtualMachineFromMachine(Scope(inv))
             cv == CreateVirtualMachine(infra, b.vm.namespace, b.vm, fault)
             c == Call("CreateVM", "infra", b.vm.namespace, b.vm.name, NoGracePeriod, cv.err)
         IN  IF b.panic
             THEN /\ inv' = Panicked(inv)
                  /\ infra' = infra
             ELSE IF b.err # NoErr
             THEN /\ inv' = Failed(inv, << Local("BuildVM", b.err) >>, b.err)
                  /\ infra' = infra
             ELSE /\ inv' = IF cv.err # NoErr
                            THEN Failed(inv, << Local("BuildVM", NoErr), c >>, cv.err)
                            ELSE [inv EXCEPT !.calls = @ \o << Local("BuildVM", NoErr), c >>,
                                             !.vm = cv.vm, !.pc = "GetVMInstance"]
                  /\ infra' = cv.infra
    /\ UNCHANGED << machine, now >>

(* manager.syncMachine, the end of manager.Create and manager.Update *)

mgrSyncMachine ==
    /\ inv.pc = "GetVMInstance"
    /\ \E fault \in BOOLEAN, lookup \in Lookups, encodes \in BOOLEAN :
         LET g == GetVirtualMachineInstance(infra, inv.vm.namespace, inv.vm.name, fault)
             c == Call("GetVMInstance", "infra", inv.vm.namespace, inv.vm.name,
                       NoGracePeriod, g.err)
             r == SyncMachine(inv.m, inv.vm, g.vmi, lookup, encodes)
         IN  inv' = IF g.err # NoErr
                    THEN Failed(inv, << c >>, g.err)
                    ELSE [inv EXCEPT !.calls = @ \o << c, Local("SyncMachine", r.err) >>,
                                     !.m = r.machine, !.mgrErr = r.err,
                                     !.lookup = lookup, !.encodes = encodes,
                                     !.pc = "PatchMachine"]
    /\ UNCHANGED << machine, infra, now >>

(* Actuator.patchMachine and the return of Actuator.Create and Update *)

\* patchMachine going on with the status the spec patch read back
ActuatorPatchMachineStatusNotRestored ==
    /\ inv.pc = "PatchMachine"
    /\ \E fault \in BOOLEAN :
         LET statusCopy == inv.m.status
             originMachineCopy == inv.origin
             p == PatchMachine(machine, inv.m, originMachineCopy, fault)
             c == Call("PatchMachine", "tenant", inv.m.namespace, inv.m.name,
                       NoGracePeriod, p.err)
         IN  /\ inv' = IF p.err # NoErr
                       THEN Return([inv EXCEPT !.calls = Append(@, c), !.patchErr = p.err,
                                               !.patchBase = originMachineCopy])
                       ELSE [inv EXCEPT !.calls = Append(@, c),
                                        !.patchBase = originMachineCopy,
                                        !.m = p.m,
                                        !.pc = "StatusPatchMachine"]
             /\ machine' = p.tenant
    /\ UNCHANGED << infra, now >>

ActuatorPatchMachine ==
    /\ inv.pc = "PatchMachine"
    /\ \E fault \in BOOLEAN :
         LET statusCopy == inv.m.status
             originMachineCopy == inv.origin
             p == PatchMachine(machine, inv.m, originMachineCopy, fault)
             c == Call("PatchMachine", "tenant", inv.m.namespace, inv.m.name,
                       NoGracePeriod, p.err)
         IN  /\ inv' = IF p.err # NoErr
                       THEN Return([inv EXCEPT !.calls = Append(@, c), !.patchErr = p.err,
                                               !.patchBase = originMachineCopy])
                       ELSE [inv EXCEPT !.calls = Append(@, c),
                                        !.patchBase = originMachineCopy,
                                        !.m = [p.m EXCEPT !.status = statusCopy],
                                        !.pc = "StatusPatchMachine"]
             /\ machine' = p.tenant
    /\ UNCHANGED << infra, now >>

ActuatorStatusPatchMachine ==
    /\ inv.pc = "StatusPatchMachine"
    /\ \E fault \in BOOLEAN :
         LET originMachineCopy == inv.origin
             sp == StatusPatchMachine(machine, inv.m, originMachineCopy, fault)
             c == Call("StatusPatchMachine", "tenant", inv.m.namespace, inv.m.name,
                       NoGracePeriod, sp.err)
         IN  /\ inv' = Return([inv EXCEPT !.calls = Append(@, c), !.patchErr = sp.err,
                                          !.statusPatchBase = originMachineCopy])
             /\ machine' = sp.tenant
    /\ UNCHANGED << infra, now >>

(* Actuator.Update and manager.Update *)

UpdateBegin ==
    /\ Idle
    /\ inv' = Begin("Update", "UpdateGetVM")
    /\ UNCHANGED << machine, infra, now >>

getInraClusterVM(store, vmName, vmNamespace, fault) ==
    GetVirtualMachine(store, vmNamespace, vmName, fault)

\* manager.Update taking a missing VM for nothing to do
mgrUpdateGetVMNotFoundIgnored ==
    /\ inv.pc = "UpdateGetVM"
    /\ \E fault \in BOOLEAN :
         LET b == CreateVirtualMachineFromMachine(Scope(inv))
             g == getInraClusterVM(infra, b.vm.name, b.vm.namespace, fault)
             c == Call("GetVM", "infra", b.vm.namespace, b.vm.name, NoGracePeriod, g.err)
             previousResourceVersion == g.vm.resourceVersion
             i == [inv EXCEPT !.mgrCalled = TRUE]
         IN  inv' = IF b.panic THEN Panicked(i)
                    ELSE IF b.err # NoErr
                    THEN Failed(i, << Local("BuildVM", b.err) >>, b.err)
                    ELSE IF g.err = "NotFound"
                    THEN [i EXCEPT !.calls = @ \o << Local("BuildVM", NoErr), c >>,
                                   !.pc = "PatchMachine"]
                    ELSE IF g.err # NoErr
                    THEN Failed(i, << Local("BuildVM", NoErr), c >>, g.err)
                    ELSE [i EXCEPT !.calls = @ \o << Local("BuildVM", NoErr), c >>,
                                   !.prevRV = previousResourceVersion,
                                   !.existingVM = g.vm,
                                   !.vm = [b.vm EXCEPT
                                             !.resourceVersion = previousResourceVersion,
                                             !.status = [created |-> g.vm.status.created,
                                                         ready |-> g.vm.status.ready]],
                                   !.pc = "UpdateVM"]
    /\ UNCHANGED << machine, infra, now >>

\* manager.Update submitting the desired VM with its own, empty status
mgrUpdateGetVMStatusNotCopied ==
    /\ inv.pc = "UpdateGetVM"
    /\ \E fault \in BOOLEAN :
         LET b == CreateVirtualMachineFromMachine(Scope(inv))
             g == getInraClusterVM(infra, b.vm.name, b.vm.namespace, fault)
             c == Call("GetVM", "infra", b.vm.namespace, b.vm.name, NoGracePeriod, g.err)
             previousResourceVersion == g.vm.resourceVersion
             i == [inv EXCEPT !.mgrCalled = TRUE]
         IN  inv' = IF b.panic THEN Panicked(i)
                    ELSE IF b.err # NoErr
                    THEN Failed(i, << Local("BuildVM", b.err) >>, b.err)
                    ELSE IF g.err # NoErr
                    THEN Failed(i, << Local("BuildVM", NoErr), c >>, g.err)
                    ELSE [i EXCEPT !.calls = @ \o << Local("BuildVM", NoErr), c >>,
                                   !.prevRV = previousResourceVersion,
                                   !.existingVM = g.vm,
                                   !.vm = [b.vm EXCEPT
                                             !.resourceVersion = previousResourceVersion],
                                   !.pc = "UpdateVM"]
    /\ UNCHANGED << machine, infra, now >>

mgrUpdateGetVM ==
    /\ inv.pc = "UpdateGetVM"
    /\ \E fault \in BOOLEAN :
         LET b == CreateVirtualMachineFromMachine(Scope(inv))
             g == getInraClusterVM(infra, b.vm.name, b.vm.namespace, fault)
             c == Call("GetVM", "infra", b.vm.namespace, b.vm.name, NoGracePeriod, g.err)
             previousResourceVersion == g.vm.resourceVersion
             i == [inv EXCEPT !.mgrCalled = TRUE]
         IN  inv' = IF b.panic THEN Panicked(i)
                    ELSE IF b.err # NoErr
                    THEN Failed(i, << Local("BuildVM", b.err) >>, b.err)
                    ELSE IF g.err # NoErr
                    THEN Failed(i, << Local("BuildVM", NoErr), c >>, g.err)
                    ELSE [i EXCEPT !.calls = @ \o << Local("BuildVM", NoErr), c >>,
                                   !.prevRV = previousResourceVersion,
                                   !.existingVM = g.vm,
                                   !.vm = [b.vm EXCEPT
                                             !.resourceVersion = previousResourceVersion,
                                             !.status = [created |-> g.vm.status.created,
                                                         ready |-> g.vm.status.ready]],
                                   !.pc = "UpdateVM"]
    /\ UNCHANGED << machine, infra, now >>

\* manager.Update reporting a change whenever the update call succeeds
mgrUpdateVMAlwaysUpdated ==
    /\ inv.pc = "UpdateVM"
    /\ \E fault \in BOOLEAN :
         LET u == UpdateVirtualMachine(infra, inv.vm.namespace, inv.vm, fault)
             c == Call("UpdateVM", "infra", inv.vm.namespace, inv.vm.name, NoGracePeriod, u.err)
             currentResourceVersion == u.vm.resourceVersion
         IN  /\ currentResourceVersion <= MaxRV
             /\ inv' = IF u.err # NoErr
                       THEN Failed([inv EXCEPT !.submitted = inv.vm], << c >>, u.err)
                       ELSE [inv EXCEPT !.calls = Append(@, c), !.vm = u.vm,
                                        !.submitted = inv.vm,
                                        !.wasUpdated = TRUE,
                                        !.pc = "GetVMInstance"]
             /\ infra' = u.infra
    /\ UNCHANGED << machine, now >>

\* manager.Update submitting the VM under whatever version the store holds
mgrUpdateVMForcing ==
    /\ inv.pc = "UpdateVM"
    /\ \E fault \in BOOLEAN :
         LET k == Key(inv.vm.namespace, inv.vm.name)
             latest == IF k \in DOMAIN infra.vms THEN infra.vms[k].resourceVersion
                       ELSE inv.vm.resourceVersion
             u == UpdateVirtualMachine(infra, inv.vm.namespace,
                                       [inv.vm EXCEPT !.resourceVersion = latest], fault)
             c == Call("UpdateVM", "infra", inv.vm.namespace, inv.vm.name, NoGracePeriod, u.err)
             currentResourceVersion == u.vm.resourceVersion
         IN  /\ currentResourceVersion <= MaxRV
             /\ inv' = IF u.err # NoErr
                       THEN Failed([inv EXCEPT !.submitted = inv.vm], << c >>, u.err)
                       ELSE [inv EXCEPT !.calls = Append(@, c), !.vm = u.vm,
                                        !.submitted = inv.vm,
                                        !.wasUpdated = inv.prevRV # currentResourceVersion,
                                        !.pc = "GetVMInstance"]
             /\ infra' = u.infra
    /\ UNCHANGED << machine, now >>

mgrUpdateVM ==
    /\ inv.pc = "UpdateVM"
    /\ \E fault \in BOOLEAN :
         LET u == UpdateVirtualMachine(infra, inv.vm.namespace, inv.vm, fault)
             c == Call("UpdateVM", "infra", inv.vm.namespace, inv.vm.name, NoGracePeriod, u.err)
             currentResourceVersion == u.vm.resourceVersion
         IN  /\ currentResourceVersion <= MaxRV
             /\ inv' = IF u.err # NoErr
                       THEN Failed([inv EXCEPT !.submitted = inv.vm], << c >>, u.err)
                       ELSE [inv EXCEPT !.calls = Append(@, c), !.vm = u.vm,
                                        !.submitted = inv.vm,
                                        !.wasUpdated = inv.prevRV # currentResourceVersion,
                                        !.pc = "GetVMInstance"]
             /\ infra' = u.infra
    /\ UNCHANGED << machine, now >>

(* Actuator.Delete and manager.Delete *)

DeleteBegin ==
    /\ Idle
    /\ inv' = Begin("Delete", "DeleteGetVM")
    /\ UNCHANGED << machine, infra, now >>

mgrDeleteGetVM ==
    /\ inv.pc = "DeleteGetVM"
    /\ \E fault \in BOOLEAN :
         LET b == CreateVirtualMachineFromMachine(Scope(inv))
             g == getInraClusterVM(infra, b.vm.name, b.vm.namespace, fault)
             c == Call("GetVM", "infra", b.vm.namespace, b.vm.name, NoGracePeriod, g.err)
             i == [inv EXCEPT !.mgrCalled = TRUE]
         IN  inv' = IF b.panic THEN Panicked(i)
                    ELSE IF b.err # NoErr
                    THEN DeleteReturn([i EXCEPT !.calls = Append(@, Local("BuildVM", b.err)),
                                                !.mgrErr = b.err])
                    ELSE IF g.err = "NotFound"
                    THEN DeleteReturn([i EXCEPT !.calls = @ \o << Local("BuildVM", NoErr), c >>])
                    ELSE IF g.err # NoErr
                    THEN DeleteReturn([i EXCEPT !.calls = @ \o << Local("BuildVM", NoErr), c >>,
                                                !.mgrErr = g.err])
                    ELSE [i EXCEPT !.calls = @ \o << Local("BuildVM", NoErr), c >>,
                                   !.vm = g.vm, !.pc = "DeleteVM"]
    /\ UNCHANGED << machine, infra, now >>

mgrDeleteVM ==
    /\ inv.pc = "DeleteVM"
    /\ \E fault \in BOOLEAN :
         LET d == DeleteVirtualMachine(infra, inv.vm.namespace, inv.vm.name, gracePeriod, fault)
             c == Call("DeleteVM", "infra", inv.vm.namespace, inv.vm.name, d.sent, d.err)
         IN  /\ inv' = DeleteReturn([inv EXCEPT !.calls = Append(@, c), !.mgrErr = d.err])
             /\ infra' = d.infra
    /\ UNCHANGED << machine, now >>

(* Actuator.Exists and manager.Exists *)

ExistsBegin ==
    /\ Idle
    /\ inv' = Begin("Exists", "ExistsGetVM")
    /\ UNCHANGED << machine, infra, now >>

\* manager.Exists reporting a missing VM as an error
mgrExistsNotFoundIsError ==
    /\ inv.pc = "ExistsGetVM"
    /\ \E fault \in BOOLEAN :
         LET g == getInraClusterVM(infra, inv.m.name, InfraNamespace, fault)
             c == Call("GetVM", "infra", InfraNamespace, inv.m.name, NoGracePeriod, g.err)
             i == [inv EXCEPT !.mgrCalled = TRUE, !.calls = Append(@, c), !.pc = "done"]
         IN  inv' = IF g.err # NoErr
                    THEN [i EXCEPT !.exists = FALSE, !.ret = g.err, !.mgrErr = g.err]
                    ELSE [i EXCEPT !.exists = TRUE, !.ret = NoErr]
    /\ UNCHANGED << machine, infra, now >>

\* manager.Exists looking the VM up in the namespace of the machine
mgrExistsInMachineNamespace ==
    /\ inv.pc = "ExistsGetVM"
    /\ \E fault \in BOOLEAN :
         LET g == getInraClusterVM(infra, inv.m.name, inv.m.namespace, fault)
             c == Call("GetVM", "infra", inv.m.namespace, inv.m.name, NoGracePeriod, g.err)
             i == [inv EXCEPT !.mgrCalled = TRUE, !.calls = Append(@, c), !.pc = "done"]
         IN  inv' = IF g.err = "NotFound" THEN [i EXCEPT !.exists = FALSE, !.ret = NoErr]
                    ELSE IF g.err # NoErr
                    THEN [i EXCEPT !.exists = FALSE, !.ret = g.err, !.mgrErr = g.err]
                    ELSE [i EXCEPT !.exists = TRUE, !.ret = NoErr]
    /\ UNCHANGED << machine, infra, now >>

mgrExists ==
    /\ inv.pc = "ExistsGetVM"
    /\ \E fault \in BOOLEAN :
         LET g == getInraClusterVM(infra, inv.m.name, InfraNamespace, fault)
             c == Call("GetVM", "infra", InfraNamespace, inv.m.name, NoGracePeriod, g.err)
             i == [inv EXCEPT !.mgrCalled = TRUE, !.calls = Append(@, c), !.pc = "done"]
         IN  inv' = IF g.err = "NotFound" THEN [i EXCEPT !.exists = FALSE, !.ret = NoErr]
                    ELSE IF g.err # NoErr
                    THEN [i EXCEPT !.exists = FALSE, !.ret = g.err, !.mgrErr = g.err]
                    ELSE [i EXCEPT !.exists = TRUE, !.ret = NoErr]
    /\ UNCHANGED << machine, infra, now >>

(* The environment *)

\* time passes between reconciles
Tick ==
    /\ Idle
    /\ now < MaxTime
    /\ now' = now + TickStep
    /\ UNCHANGED << machine, infra, inv >>

\* the infra cluster starts the instance of a VM: the VMI appears and the
\* VM's status says created
KubevirtStart ==
    /\ \E k \in DOMAIN infra.vms :
        /\ k \notin DOMAIN infra.vmis
        /\ infra.vms[k].resourceVersion < MaxRV
        /\ infra' = [infra EXCEPT !.vmis = (k :> [name |-> k[2], namespace |-> k[1]]) @@ @,
                                  !.vms[k].status.created = TRUE,
                                  !.vms[k].resourceVersion = @ + 1]
    /\ UNCHANGED << machine, now, inv >>

\* the instance becomes ready
KubevirtReady ==
    /\ \E k \in DOMAIN infra.vms :
        /\ k \in DOMAIN infra.vmis
        /\ ~infra.vms[k].status.ready
        /\ infra.vms[k].resourceVersion < MaxRV
        /\ infra' = [infra EXCEPT !.vms[k].status.ready = TRUE,
                                  !.vms[k].resourceVersion = @ + 1]
    /\ UNCHANGED << machine, now, inv >>

Next ==
    \/ CreateBegin
    \/ CreateGetUserData
    \/ mgrCreateSecret
    \/ mgrCreateVM
    \/ mgrSyncMachine
    \/ ActuatorPatchMachine
    \/ ActuatorStatusPatchMachine
    \/ UpdateBegin
    \/ mgrUpdateGetVM
    \/ mgrUpdateVM
    \/ DeleteBegin
    \/ mgrDeleteGetVM
    \/ mgrDeleteVM
    \/ ExistsBegin
    \/ mgrExists
    \/ Tick
    \/ KubevirtStart
    \/ KubevirtReady

Spec == Init /\ [][Next]_vars

----------------------------------------------------------------------------
(* UpdateAllowed on its own: the machines differ in providerID and          *)
(* lastUpdated, the clock runs second by second, and the predicate is       *)
(* evaluated for an interval at the current time.                           *)

Intervals == { 0, 1, requeueAfterSeconds }

UAMachines ==
    { [NewMachine(ClusterLabels, UndecodableSpec, lu) EXCEPT !.providerID = id] :
        lu \in {NoTime} \cup 0..MaxClock,
        id \in { Nil, "", FormatProviderID(InfraNamespace, MachineName) } }

InitUA ==
    /\ machine \in UAMachines
    /\ infra = [secrets |-> EmptyMap, vms |-> EmptyMap, vmis |-> EmptyMap]
    /\ now = 0
    /\ inv = Fresh("none", machine, 0)

TickUA ==
    /\ now < MaxClock
    /\ now' = now + 1
    /\ UNCHANGED << machine, infra, inv >>

CallUpdateAllowed ==
    /\ \E interval \in Intervals :
         inv' = [Fresh("UpdateAllowed", machine, now) EXCEPT
                   !.pc = "done", !.interval = interval,
                   !.allowed = UpdateAllowed(machine, interval, now)]
    /\ UNCHANGED << machine, infra, now >>

NextUA ==
    \/ TickUA
    \/ CallUpdateAllowed

SpecUA == InitUA /\ [][NextUA]_vars

----------------------------------------------------------------------------
(* SyncMachine on its own, as TestSyncMachine calls it: a machine, a VM      *)
(* with any created/ready flags, with or without a template, and its VMI.   *)
(* The machine a call leaves is the machine the next call starts from.      *)

SyncVMs ==
    { [NilVM EXCEPT !.name = name, !.namespace = InfraNamespace,
                    !.uid = "uid-" \o name,
                    !.status = [created |-> created, ready |-> ready],
                    !.spec.template = template] :
        name \in { MachineName, "m2" },
        created \in BOOLEAN, ready \in BOOLEAN,
        template \in { NilTemplate, [isNil |-> FALSE, machineType |-> "q35"] } }

SyncMachines ==
    { [NewMachine(ClusterLabels, UndecodableSpec, NoTime) EXCEPT
         !.providerID = id, !.annotations = ("owner" :> "team-a")] :
        id \in { Nil, "" } }

\* a name that resolves to an IPv6 address followed by two IPv4 addresses
ResolvedMany == [err |-> NoErr, ips |-> << [address |-> "fe80::2", v4 |-> FALSE],
                                           [address |-> "10.0.0.7", v4 |-> TRUE],
                                           [address |-> "10.0.0.6", v4 |-> TRUE] >>]

SyncLookups == { ResolvedMany, Unresolved }

InitSync ==
    /\ machine \in SyncMachines
    /\ infra = [secrets |-> EmptyMap, vms |-> EmptyMap, vmis |-> EmptyMap]
    /\ now = 0
    /\ inv = Fresh("none", machine, 0)

CallSyncMachine ==
    /\ \E vm \in SyncVMs, lookup \in SyncLookups, encodes \in BOOLEAN :
         LET vmi == [name |-> vm.name, namespace |-> vm.namespace]
             r == SyncMachine(machine, vm, vmi, lookup, encodes)
         IN  /\ inv' = [Fresh("SyncMachine", machine, now) EXCEPT
                          !.pc = "done", !.vm = vm, !.m = r.machine, !.mgrErr = r.err,
                          !.lookup = lookup, !.encodes = encodes]
             /\ machine' = r.machine
    /\ UNCHANGED << infra, now >>

NextSync == CallSyncMachine

SpecSync == InitSync /\ [][NextSync]_vars

----------------------------------------------------------------------------
(* CreateVirtualMachineFromMachine on its own, as                           *)
(* TestCreateVirtualMachineFromMachine calls it: a scope is built from a    *)
(* machine whose provider spec has any of the mandatory fields empty, any   *)
(* memory, storage and access mode, and the desired VM is built from it.    *)

BuildSpecs ==
    { [ProviderSpec(pvc, ign, net) EXCEPT !.requestedMemory = memory,
                                          !.requestedStorage = storage,
                                          !.persistentVolumeAccessMode = accessMode] :
        pvc \in {"", "rhcos-pvc"}, ign \in {"", "worker-user-data"}, net \in {"", "multus-net"},
        memory \in {"", "4096M", "lots"}, storage \in {"", "50Gi", "lots"},
        accessMode \in ValidAccessModes \cup {"", "NotValid"} }

\* the labels of the machine: the cluster label alone, with a label of the
\* machine's own, and with a label under the key of the base label
BuildMachineLabels ==
    { ClusterLabels,
      ("role" :> "worker") @@ ClusterLabels,
      [k \in DOMAIN BuildLabels(InfraID) |-> "mine"] @@ ClusterLabels }

InitBuild ==
    /\ machine \in { NewMachine(labels, [decodes |-> TRUE, value |-> spec], NoTime) :
                       labels \in BuildMachineLabels, spec \in BuildSpecs }
    /\ infra = [secrets |-> EmptyMap, vms |-> EmptyMap, vmis |-> EmptyMap]
    /\ now = 0
    /\ inv = Fresh("none", machine, 0)

CallCreateVirtualMachineFromMachine ==
    /\ inv.pc = "idle"
    /\ LET sc == createMachineScope(machine)
           b == CreateVirtualMachineFromMachine(sc)
           i == [Fresh("CreateVirtualMachineFromMachine", machine, now) EXCEPT
                   !.spec = sc.machineProviderSpec]
       IN  inv' = IF b.panic THEN Panicked(i)
                  ELSE [i EXCEPT !.pc = "done", !.vm = b.vm, !.mgrErr = b.err]
    /\ UNCHANGED << machine, infra, now >>

NextBuild == CallCreateVirtualMachineFromMachine

SpecBuild == InitBuild /\ [][NextBuild]_vars

----------------------------------------------------------------------------
(* addHostnameToUserData on its own: the user data is any of the shapes the  *)
(* function tells apart, with up to MaxFiles file entries when it has        *)
(* storage.files, and the hostname is the name of the machine.               *)

IgnitionFiles ==
    { [filesystem |-> "root", path |-> path, mode |-> 420, source |-> "data:,hello"] :
        path \in { "/etc/motd", "/etc/chrony.conf", "/etc/hostname" } }

RECURSIVE FileLists(_)
FileLists(n) ==
    IF n = 0 THEN { <<>> }
    ELSE FileLists(n - 1)
         \cup { Append(fs, f) : fs \in { l \in FileLists(n - 1) : Len(l) = n - 1 },
                                f \in IgnitionFiles }

HostnamePayloads ==
    { Payload(FALSE, FALSE, FALSE), Payload(TRUE, FALSE, FALSE), Payload(TRUE, TRUE, FALSE) }
    \cup { [Payload(TRUE, TRUE, TRUE) EXCEPT !.files = fs] : fs \in FileLists(MaxFiles) }

HostNames == { MachineName, "m2", "worker-0", "worker-1" }

InitHostname ==
    /\ machine \in { [NewMachine(ClusterLabels, UndecodableSpec, NoTime) EXCEPT !.name = name] :
                       name \in HostNames }
    /\ infra = [secrets |-> EmptyMap, vms |-> EmptyMap, vmis |-> EmptyMap]
    /\ now = 0
    /\ inv \in { [Fresh("none", machine, 0) EXCEPT !.userData = src] : src \in HostnamePayloads }

CallAddHostnameToUserData ==
    /\ inv.pc = "idle"
    /\ LET full == addHostnameToUserData(inv.userData, machine.name)
           i == [Fresh("addHostnameToUserData", machine, now) EXCEPT !.userData = inv.userData]
       IN  inv' = IF full.panic THEN Panicked(i)
                  ELSE [i EXCEPT !.pc = "done", !.fullUserData = full.data, !.mgrErr = full.err]
    /\ UNCHANGED << machine, infra, now >>

NextHostname == CallAddHostnameToUserData

SpecHostname == InitHostname /\ [][NextHostname]_vars

----------------------------------------------------------------------------
(* New on its own: the read of the bootstrap config map fails, or yields a   *)
(* map with or without the infraID key, the namespace key and another key.   *)

\* the maps a config map can hold: each key absent or with one of some values
ConfigMaps ==
    { [k \in keys |-> IF k = ConfigMapInfraIDKeyName THEN id
                      ELSE IF k = ConfigMapInfraNamespaceKeyName THEN ns
                      ELSE "value"] :
        keys \in SUBSET { ConfigMapInfraIDKeyName, ConfigMapInfraNamespaceKeyName, "other" },
        id \in { "", InfraID, "infra2", "infra3" },
        ns \in { "", InfraNamespace, "other-ns", "third-ns" } }

ConfigMapReads ==
    { [err |-> e, value |-> EmptyMap] : e \in { "NotFound", "Transient", "no config key" } }
    \cup { [err |-> NoErr, value |-> v] : v \in ConfigMaps }

InitNew ==
    /\ machine = NoMachine
    /\ infra = [secrets |-> EmptyMap, vms |-> EmptyMap, vmis |-> EmptyMap]
    /\ now = 0
    /\ inv \in { [Fresh("none", machine, 0) EXCEPT !.cMap = read] : read \in ConfigMapReads }

CallNew ==
    /\ inv.pc = "idle"
    /\ LET r == New(inv.cMap)
       IN  inv' = [Fresh("New", machine, now) EXCEPT
                     !.pc = "done", !.cMap = inv.cMap, !.actuator = r.actuator, !.ret = r.err]
    /\ UNCHANGED << machine, infra, now >>

NextNew == CallNew

SpecNew == InitNew /\ [][NextNew]_vars

----------------------------------------------------------------------------
(* What the claims read off an invocation *)

Done(op) == inv.op = op /\ inv.pc = "done"

IsManagerCall(c) == c.target # "tenant"

ManagerCalls == SelectSeq(inv.calls, IsManagerCall)

Issued(call) == \E n \in 1..Len(inv.calls) : inv.calls[n].call = call

IssuedWith(call, res) ==
    \E n \in 1..Len(inv.calls) : inv.calls[n].call = call /\ inv.calls[n].res = res

Count(call) == Cardinality({ n \in 1..Len(inv.calls) : inv.calls[n].call = call })

InfraCalls == { n \in 1..Len(inv.calls) : inv.calls[n].target = "infra" }

IsPrefix(a, b) == Len(a) <= Len(b) /\ \A n \in 1..Len(a) : a[n] = b[n]

Names(calls) == [n \in 1..Len(calls) |-> calls[n].call]

HasProviderID == inv.origin.providerID \notin { Nil, "" }

Elapsed == inv.at - inv.origin.status.lastUpdated

----------------------------------------------------------------------------
(* The claims *)

\* C1: whenever the VM manager's Create, Update or Delete returns an error, or
\* the patch-back fails, the Actuator operation returns a non-nil error.
C1_ErrorsReachTheCaller ==
    (inv.pc = "done" /\ inv.op \in {"Create", "Update", "Delete"}
        /\ (inv.mgrErr # NoErr \/ inv.patchErr # NoErr))
    => inv.ret # NoErr

\* C2: with a mandatory provider-spec field empty, a Create, Update or Delete
\* issues no call to the infra cluster.
C2_NoRemoteCallWithoutMandatoryFields ==
    (inv.op \in {"Create", "Update", "Delete"}
        /\ inv.origin.providerSpec.decodes
        /\ \E f \in {"sourcePvcName", "ignitionSecretName", "networkName"} :
               inv.origin.providerSpec.value[f] = "")
    => InfraCalls = {}

\* C3: a status sync (SyncMachine after UpdateVM) happens only in an Update
\* reconcile in which UpdateAllowed(requeueAfterSeconds) is true.
C3_SyncOnlyWhenUpdateAllowed ==
    (inv.op = "Update" /\ Issued("SyncMachine"))
    => UpdateAllowed(inv.origin, requeueAfterSeconds, inv.at)

\* C4, as claimed: with a non-empty providerID, UpdateAllowed is true exactly
\* when lastUpdated is absent or now > lastUpdated + minInterval.
C4_AllowedOnceIntervalPassed ==
    (Done("UpdateAllowed") /\ HasProviderID)
    => (inv.allowed <=> (inv.origin.status.lastUpdated = NoTime
                         \/ inv.at > inv.origin.status.lastUpdated + inv.interval))

\* C4, amended: with a non-empty providerID, UpdateAllowed is true exactly
\* when lastUpdated is absent or less than minInterval has elapsed since
\* lastUpdated (now < lastUpdated + minInterval).
C4_AllowedWhileWithinInterval ==
    (Done("UpdateAllowed") /\ HasProviderID)
    => (inv.allowed <=> (inv.origin.status.lastUpdated = NoTime \/ Elapsed < inv.interval))

C4_Witness ==
    /\ Done("UpdateAllowed") /\ HasProviderID
    /\ inv.origin.status.lastUpdated # NoTime
    /\ inv.interval = requeueAfterSeconds
    /\ Elapsed = requeueAfterSeconds + 1
    /\ ~inv.allowed

\* C5: with a non-empty providerID and lastUpdated set, UpdateAllowed is true
\* when lastUpdated lies less than interval seconds before now and false when
\* interval seconds or more have passed (exactly interval included).
C5_TestUpdateAllowed ==
    (Done("UpdateAllowed") /\ HasProviderID /\ inv.origin.status.lastUpdated # NoTime)
    => /\ (Elapsed >= 0 /\ Elapsed < inv.interval) => inv.allowed
       /\ Elapsed >= inv.interval => ~inv.allowed

C5_Witness ==
    /\ Done("UpdateAllowed") /\ HasProviderID
    /\ inv.interval = requeueAfterSeconds
    /\ inv.origin.status.lastUpdated # NoTime
    /\ Elapsed = requeueAfterSeconds
    /\ ~inv.allowed

\* C6: UpdateAllowed is false whenever providerID is nil or empty, whatever
\* lastUpdated and the interval are, and true when providerID is non-empty and
\* lastUpdated is nil.
C6_ProviderIDRequired ==
    Done("UpdateAllowed")
    => /\ inv.origin.providerID \in { Nil, "" } => ~inv.allowed
       /\ (HasProviderID /\ inv.origin.status.lastUpdated = NoTime) => inv.allowed

C6_Witness ==
    /\ Done("UpdateAllowed")
    /\ inv.origin.providerID = ""
    /\ inv.origin.status.lastUpdated = NoTime
    /\ ~inv.allowed

CreateOrder == << "CreateSecret", "BuildVM", "CreateVM", "GetVMInstance", "SyncMachine" >>

\* C7: the manager's Create runs CreateSecret, the VM build, CreateVM,
\* GetVMInstance and SyncMachine in that order; the first failing step is the
\* last one of the invocation, its error is the manager's, and no delete of
\* what was already created is issued.
C7_CreateOrderAndShortCircuit ==
    inv.op = "Create"
    => /\ IsPrefix(Names(ManagerCalls), CreateOrder)
       /\ \A n \in 1..Len(ManagerCalls) :
            ManagerCalls[n].res # NoErr
            => (n = Len(ManagerCalls) /\ inv.mgrErr = ManagerCalls[n].res)
       /\ (inv.pc = "done" /\ inv.mgrCalled /\ inv.mgrErr = NoErr)
            => Names(ManagerCalls) = CreateOrder
       /\ ~Issued("DeleteVM")
       /\ IssuedWith("CreateSecret", NoErr)
            => Key(InfraNamespace, buildIgnitionSecretName(MachineName)) \in DOMAIN infra.secrets

C7_Witness ==
    /\ Done("Create")
    /\ Names(ManagerCalls) = << "CreateSecret", "BuildVM", "CreateVM" >>
    /\ ManagerCalls[3].res # NoErr
    /\ inv.mgrErr # NoErr
    /\ Key(InfraNamespace, buildIgnitionSecretName(MachineName)) \in DOMAIN infra.secrets
    /\ IssuedWith("PatchMachine", NoErr)

\* C8: when GetVMInstance reports NotFound after the VM was created or
\* updated, the operation still runs SyncMachine and the manager succeeds.
C8_MissingVMITolerated ==
    (inv.pc = "done" /\ inv.op \in {"Create", "Update"}
        /\ IssuedWith("GetVMInstance", "NotFound"))
    => (Issued("SyncMachine") /\ inv.mgrErr = NoErr)

\* C9: a Create that finds the ignition secret left by an earlier, failed
\* Create still succeeds: the leftover secret does not make it fail.
C9_CreateSucceedsOverLeftoverSecret ==
    (Done("Create") /\ IssuedWith("CreateSecret", "AlreadyExists"))
    => inv.mgrErr = NoErr

\* C10: when GetVM reports NotFound, Delete returns no error and issues no
\* DeleteVM; when the VM exists it issues exactly one DeleteVM for that VM
\* with the grace period of 10 seconds.
C10_DeleteIdempotentWithGracePeriod ==
    Done("Delete")
    => /\ IssuedWith("GetVM", "NotFound") => (inv.ret = NoErr /\ ~Issued("DeleteVM"))
       /\ IssuedWith("GetVM", NoErr)
            => /\ Count("DeleteVM") = 1
               /\ \A n \in 1..Len(inv.calls) :
                    inv.calls[n].call = "DeleteVM"
                    => /\ inv.calls[n].namespace = InfraNamespace
                       /\ inv.calls[n].name = MachineName
                       /\ inv.calls[n].grace = gracePeriod

\* the scope as it was built at entry, before the manager touched the machine
ScopeAtEntry == [Scope(inv) EXCEPT !.machine = inv.origin]

Position(call) == CHOOSE n \in 1..Len(inv.calls) : inv.calls[n].call = call

\* C11: in Update, when GetVM fails (NotFound included) the manager returns
\* (false, error), no UpdateVM is submitted, SyncMachine does not run and the
\* machine, in memory and persisted, stays as it was at entry.
C11_UpdateWithoutVMIsAnError ==
    (inv.op = "Update" /\ Issued("GetVM") /\ ~IssuedWith("GetVM", NoErr))
    => /\ ~inv.wasUpdated
       /\ inv.mgrErr # NoErr
       /\ ~Issued("UpdateVM")
       /\ ~Issued("SyncMachine")
       /\ inv.m = inv.origin
       /\ machine = inv.origin

C11_Witness ==
    /\ Done("Update")
    /\ IssuedWith("GetVM", "NotFound")
    /\ IssuedWith("StatusPatchMachine", NoErr)
    /\ inv.mgrErr = "NotFound"

\* C12: the VM that Update submits to UpdateVM is the freshly built desired VM
\* with the resourceVersion and the created/ready flags of the VM fetched by
\* GetVM in the same invocation.
C12_SubmittedVMCarriesFetchedVersionAndStatus ==
    (inv.op = "Update" /\ Issued("UpdateVM"))
    => inv.submitted =
         [CreateVirtualMachineFromMachine(ScopeAtEntry).vm EXCEPT
            !.resourceVersion = inv.existingVM.resourceVersion,
            !.status = [created |-> inv.existingVM.status.created,
                        ready |-> inv.existingVM.status.ready]]

C12_Witness ==
    /\ inv.op = "Update"
    /\ IssuedWith("UpdateVM", NoErr)
    /\ inv.existingVM.status.created
    /\ inv.existingVM.status.ready
    /\ inv.existingVM.resourceVersion > 1
    /\ inv.submitted.status.ready

\* C13: Update's wasUpdated is true exactly when the resourceVersion returned
\* by UpdateVM differs from the one read by GetVM; it is false when UpdateVM
\* was not reached or failed.
C13_WasUpdatedIffVersionChanged ==
    inv.op = "Update"
    => IF IssuedWith("UpdateVM", NoErr)
       THEN inv.wasUpdated <=> (inv.vm.resourceVersion # inv.existingVM.resourceVersion)
       ELSE ~inv.wasUpdated

C13_Witness ==
    /\ Done("Update")
    /\ IssuedWith("UpdateVM", NoErr)
    /\ inv.vm.resourceVersion = inv.existingVM.resourceVersion
    /\ ~inv.wasUpdated

\* C14: Exists issues nothing but one GetVM for (infra namespace, machine
\* name) and returns (true, nil) when it succeeds, (false, nil) on NotFound
\* and (false, error) on any other failure.
C14_ExistsReadsOnly ==
    inv.op = "Exists"
    => /\ \A n \in 1..Len(inv.calls) :
            /\ inv.calls[n].call = "GetVM"
            /\ inv.calls[n].namespace = InfraNamespace
            /\ inv.calls[n].name = MachineName
       /\ Len(inv.calls) <= 1
       /\ (inv.pc = "done" /\ inv.mgrCalled)
            => /\ Len(inv.calls) = 1
               /\ inv.calls[1].res = NoErr => (inv.exists /\ inv.ret = NoErr)
               /\ inv.calls[1].res = "NotFound" => (~inv.exists /\ inv.ret = NoErr)
               /\ inv.calls[1].res \notin {NoErr, "NotFound"}
                    => (~inv.exists /\ inv.ret # NoErr)

C14_Witness ==
    /\ Done("Exists")
    /\ IssuedWith("GetVM", "NotFound")
    /\ ~inv.exists
    /\ inv.ret = NoErr

OperationFailed ==
    \/ inv.mgrErr # NoErr
    \/ inv.patchErr # NoErr
    \/ (inv.op = "Create" /\ ~inv.mgrCalled)

InstanceState == Get(inv.m.annotations, MachineInstanceStateAnnotationName)

\* C17: after SyncMachine the instance-state annotation is one of the three
\* states and follows from the VM's created/ready flags alone: (false,false)
\* and (false,true) give vmNotCreated, (true,false) created-but-not-ready,
\* (true,true) created-and-ready.
C17_StateFromCreatedAndReady ==
    Done("SyncMachine")
    => /\ InstanceState \in { "vmNotCreated", "vmWasCreatedButNotReady", "vmWasCreatedAndReady" }
       /\ ~inv.vm.status.created => InstanceState = "vmNotCreated"
       /\ (inv.vm.status.created /\ ~inv.vm.status.ready)
            => InstanceState = "vmWasCreatedButNotReady"
       /\ (inv.vm.status.created /\ inv.vm.status.ready)
            => InstanceState = "vmWasCreatedAndReady"

C17_Witness ==
    /\ Done("SyncMachine")
    /\ ~inv.vm.status.created
    /\ inv.vm.status.ready
    /\ Get(inv.origin.annotations, MachineInstanceStateAnnotationName) = "vmWasCreatedAndReady"
    /\ InstanceState = "vmNotCreated"

\* C18: after SyncMachine(vm, vmi) the providerID is
\* kubevirt://<vm namespace>/<vm name>; a providerID that already had that
\* value is kept, and SyncMachine with the same VM again leaves it unchanged.
C18_ProviderIDFromVM ==
    Done("SyncMachine")
    => /\ inv.m.providerID = "kubevirt://" \o inv.vm.namespace \o "/" \o inv.vm.name
       /\ \A lookup \in Lookups, encodes \in BOOLEAN :
            SyncMachine(inv.m, inv.vm, [name |-> inv.vm.name, namespace |-> inv.vm.namespace],
                        lookup, encodes).machine.providerID = inv.m.providerID

C18_Witness ==
    /\ Done("SyncMachine")
    /\ inv.origin.providerID = "kubevirt://infra-ns/m2"
    /\ inv.vm.name = MachineName
    /\ inv.m.providerID = "kubevirt://infra-ns/m1"

EntrySpec == inv.origin.providerSpec.value

BootVolume == inv.vm.spec.dataVolumeTemplates[1]

\* C19: the mandatory fields are checked in the order sourcePvcName,
\* ignitionSecretName, networkName: with any of them empty the build returns
\* the error naming the first empty one in that order, and no VM.
C19_FirstMissingFieldWins ==
    (inv.op = "CreateVirtualMachineFromMachine"
        /\ "" \in { EntrySpec.sourcePvcName, EntrySpec.ignitionSecretName, EntrySpec.networkName })
    => /\ inv.pc = "done"
       /\ inv.vm = NilVM
       /\ inv.mgrErr = IF EntrySpec.sourcePvcName = "" THEN "missing value for SourcePvcName"
                       ELSE IF EntrySpec.ignitionSecretName = ""
                       THEN "missing value for IgnitionSecretName"
                       ELSE "missing value for NetworkName"

C19_Witness ==
    /\ Done("CreateVirtualMachineFromMachine")
    /\ EntrySpec.sourcePvcName # ""
    /\ EntrySpec.ignitionSecretName = ""
    /\ EntrySpec.networkName = ""
    /\ inv.mgrErr = "missing value for IgnitionSecretName"

\* C20: with the mandatory fields set, the build defaults an empty memory to
\* 2048M, an empty storage to 35Gi and an empty access mode to ReadWriteMany,
\* keeps a non-empty access mode that is one of the three legal ones and
\* fails without a VM on any other, and passes non-empty memory and storage
\* values through unchanged.
C20_DefaultsAndPassThrough ==
    (inv.op = "CreateVirtualMachineFromMachine"
        /\ "" \notin { EntrySpec.sourcePvcName, EntrySpec.ignitionSecretName, EntrySpec.networkName })
    => IF EntrySpec.persistentVolumeAccessMode \notin ValidAccessModes \cup {""}
       THEN inv.pc = "done" /\ inv.mgrErr # NoErr /\ inv.vm = NilVM
       ELSE /\ inv.pc = "done"
            /\ inv.mgrErr = NoErr
            /\ inv.vm.spec.template.memory =
                 IF EntrySpec.requestedMemory = "" THEN "2048M" ELSE EntrySpec.requestedMemory
            /\ BootVolume.storage =
                 IF EntrySpec.requestedStorage = "" THEN "35Gi" ELSE EntrySpec.requestedStorage
            /\ BootVolume.accessModes =
                 << IF EntrySpec.persistentVolumeAccessMode = "" THEN "ReadWriteMany"
                    ELSE EntrySpec.persistentVolumeAccessMode >>

\* C21: the labels of the desired VM are the base labels of the infra scope
\* overlaid by the machine's labels: every machine label with the machine's
\* value, every base label whose key the machine does not use with the base
\* value, the machine's value where the keys collide, and no other label.
C21_MachineLabelsOverBaseLabels ==
    (Done("CreateVirtualMachineFromMachine") /\ inv.mgrErr = NoErr)
    => LET base == BuildLabels(InfraID)
           own == inv.origin.labels
       IN  /\ DOMAIN inv.vm.labels = DOMAIN base \cup DOMAIN own
           /\ \A k \in DOMAIN own : inv.vm.labels[k] = own[k]
           /\ \A k \in DOMAIN base \ DOMAIN own : inv.vm.labels[k] = base[k]

C21_Witness ==
    /\ Done("CreateVirtualMachineFromMachine")
    /\ inv.mgrErr = NoErr
    /\ \E k \in DOMAIN BuildLabels(InfraID) \cap DOMAIN inv.origin.labels :
         /\ BuildLabels(InfraID)[k] # inv.origin.labels[k]
         /\ inv.vm.labels[k] = "mine"
    /\ inv.vm.labels[MachineClusterIDLabel] = "cluster1"

\* C22: the VM that Create creates is named after the machine in the infra
\* namespace; its one boot disk references the data volume
\* "<machine>-bootvolume", the name of its one data-volume template; its
\* cloud-init disk references the secret "<machine>-ignition", the name under
\* which Create created the ignition secret in the infra namespace.
C22_NamesDerivedFromMachineName ==
    (inv.op = "Create" /\ IssuedWith("CreateVM", NoErr))
    => LET name == inv.origin.name
           volumes == inv.vm.spec.template.volumes
           templates == inv.vm.spec.dataVolumeTemplates
           boot == { n \in 1..Len(volumes) : volumes[n].kind = "DataVolume" }
           cloudInit == { n \in 1..Len(volumes) : volumes[n].kind = "CloudInitConfigDrive" }
           secret == inv.calls[Position("CreateSecret")]
           created == inv.calls[Position("CreateVM")]
       IN  /\ inv.vm.name = name /\ inv.vm.namespace = InfraNamespace
           /\ created.name = name /\ created.namespace = InfraNamespace
           /\ Len(templates) = 1
           /\ templates[1].name = name \o "-bootvolume"
           /\ Cardinality(boot) = 1
           /\ \A n \in boot : volumes[n].ref = templates[1].name
           /\ Cardinality(cloudInit) = 1
           /\ \A n \in cloudInit : volumes[n].ref = name \o "-ignition"
                                   /\ volumes[n].ref = secret.name
           /\ secret.namespace = InfraNamespace
           /\ secret.res = NoErr
           /\ Key(InfraNamespace, name \o "-ignition") \in DOMAIN infra.secrets

C22_Witness ==
    /\ Done("Create")
    /\ inv.ret = NoErr
    /\ inv.vm.name = "m1"
    /\ inv.vm.spec.template.volumes[2].ref = "m1-ignition"
    /\ inv.vm.spec.dataVolumeTemplates[1].name = "m1-bootvolume"
    /\ inv.calls[Position("CreateSecret")].name = "m1-ignition"

\* the machine an operation was given cannot have a scope built from it
ScopeCannotBeBuilt ==
    \/ Get(inv.origin.labels, MachineClusterIDLabel) = ""
    \/ ~inv.origin.providerSpec.decodes

ActuatorOperations == { "Create", "Update", "Delete", "Exists" }

\* C23: when the machine has no non-empty cluster label or its provider spec
\* does not decode, every Actuator operation returns the error of the scope
\* construction without any remote call, without patching the machine and
\* without an event.
C23_ScopeErrorEndsTheOperation ==
    (inv.op \in ActuatorOperations /\ ScopeCannotBeBuilt)
    => /\ inv.pc = "done"
       /\ inv.ret = "InvalidMachineConfiguration"
       /\ inv.calls = <<>>
       /\ inv.events = <<>>
       /\ ~inv.mgrCalled
       /\ ~inv.exists
       /\ inv.m = inv.origin
       /\ machine = inv.origin

C23_Witness ==
    /\ Done("Update")
    /\ MachineClusterIDLabel \in DOMAIN inv.origin.labels
    /\ inv.origin.labels[MachineClusterIDLabel] = ""
    /\ inv.origin.providerSpec.decodes
    /\ inv.ret = "InvalidMachineConfiguration"
    /\ inv.calls = <<>>

RemoteCalls ==
    { "GetSecret", "CreateSecret", "CreateVM", "GetVM", "UpdateVM", "DeleteVM",
      "GetVMInstance", "PatchMachine", "StatusPatchMachine" }

\* C24: within one invocation of an Actuator operation every kind of remote
\* call is issued at most once: a call that failed is not issued again.
C24_EveryRemoteCallAtMostOnce ==
    /\ \A call \in RemoteCalls : Count(call) <= 1
    /\ \A n \in 1..Len(inv.calls) : inv.calls[n].call \in RemoteCalls \cup { "BuildVM", "SyncMachine" }

C24_Witness ==
    /\ Done("Create")
    /\ IssuedWith("CreateVM", "Transient")
    /\ Count("CreateVM") = 1
    /\ Count("CreateSecret") = 1
    /\ Count("PatchMachine") = 1
    /\ Count("StatusPatchMachine") = 1

StaleAtUpdate ==
    LET k == Key(inv.vm.namespace, inv.vm.name) IN
    /\ inv.op = "Update"
    /\ inv.pc = "UpdateVM"
    /\ k \in DOMAIN infra.vms
    /\ infra.vms[k].resourceVersion # inv.existingVM.resourceVersion

\* C26: when another writer changed the remote VM between Update's GetVM and
\* its UpdateVM, the UpdateVM step leaves the store as it is and the manager
\* returns an error with wasUpdated false; an Update whose UpdateVM met a
\* conflict never fetches the instance and never runs SyncMachine.
C26_StaleUpdateIsRejected ==
    /\ [][ (StaleAtUpdate /\ inv'.pc # "UpdateVM")
           => /\ infra' = infra
              /\ inv'.pc = "PatchMachine"
              /\ inv'.mgrErr \in { "Conflict", "Transient" }
              /\ ~inv'.wasUpdated
              /\ inv'.m = inv.m
              /\ inv'.calls[Len(inv'.calls)].call = "UpdateVM"
              /\ inv'.calls[Len(inv'.calls)].res = inv'.mgrErr ]_vars
    /\ [](IssuedWith("UpdateVM", "Conflict")
           => /\ ~inv.wasUpdated
              /\ inv.mgrErr = "Conflict"
              /\ inv.m = inv.origin
              /\ ~Issued("GetVMInstance")
              /\ ~Issued("SyncMachine"))

C26_Witness ==
    /\ Done("Update")
    /\ IssuedWith("UpdateVM", "Conflict")
    /\ inv.existingVM.resourceVersion = inv.submitted.resourceVersion
    /\ LET k == Key(inv.submitted.namespace, inv.submitted.name) IN
         /\ k \in DOMAIN infra.vms
         /\ infra.vms[k].resourceVersion > inv.submitted.resourceVersion
         /\ infra.vms[k].status.created
         /\ ~inv.submitted.status.created

RaisedEvent(e) == \E n \in 1..Len(inv.events) : inv.events[n] = e

\* C27: an Update that gets past scope construction and returns raises the
\* Normal Update event exactly when the manager's Update and both patches
\* returned no error and wasUpdated is true; an Update that succeeded with
\* wasUpdated false raises no event at all.
C27_UpdateEventOnlyWhenUpdated ==
    (Done("Update") /\ ~ScopeCannotBeBuilt)
    => /\ RaisedEvent(Event("Normal", updateEventAction))
            <=> (inv.mgrErr = NoErr /\ inv.patchErr = NoErr /\ inv.wasUpdated)
       /\ (inv.mgrErr = NoErr /\ inv.patchErr = NoErr /\ inv.wasUpdated)
            => inv.events = << Event("Normal", updateEventAction) >>
       /\ (inv.mgrErr = NoErr /\ inv.patchErr = NoErr /\ ~inv.wasUpdated)
            => inv.events = <<>>

C27_Witness ==
    /\ Done("Update")
    /\ IssuedWith("UpdateVM", NoErr)
    /\ IssuedWith("StatusPatchMachine", NoErr)
    /\ inv.mgrErr = NoErr
    /\ ~inv.wasUpdated
    /\ inv.ret = NoErr
    /\ inv.events = <<>>

\* C28: SyncMachine sets the instance-type label to the machine type of the
\* VM's template when the VM has a template and leaves the label as it was,
\* present with its value or absent, when the VM has none; the instance-state
\* and VmId annotations are written in both cases, and no other label changes.
C28_InstanceTypeOnlyFromATemplate ==
    Done("SyncMachine")
    => LET before == inv.origin.labels
           after == inv.m.labels
           type == MachineInstanceTypeLabelName
       IN  /\ IF inv.vm.spec.template.isNil
              THEN /\ type \in DOMAIN after <=> type \in DOMAIN before
                   /\ type \in DOMAIN before => after[type] = before[type]
              ELSE /\ type \in DOMAIN after
                   /\ after[type] = inv.vm.spec.template.machineType
           /\ DOMAIN after \ {type} = DOMAIN before \ {type}
           /\ \A k \in DOMAIN before \ {type} : after[k] = before[k]
           /\ kubevirtIdAnnotationKey \in DOMAIN inv.m.annotations
           /\ inv.m.annotations[kubevirtIdAnnotationKey] = inv.vm.uid
           /\ MachineInstanceStateAnnotationName \in DOMAIN inv.m.annotations
           /\ inv.m.annotations[MachineInstanceStateAnnotationName]
                \in { vmNotCreated, vmCreatedNotReady, vmCreatedAndReady }

C28_Witness ==
    /\ Done("SyncMachine")
    /\ inv.vm.spec.template.isNil
    /\ inv.vm.name = "m2"
    /\ Get(inv.origin.labels, MachineInstanceTypeLabelName) = "q35"
    /\ Get(inv.origin.annotations, kubevirtIdAnnotationKey) = "uid-m1"
    /\ Get(inv.m.labels, MachineInstanceTypeLabelName) = "q35"
    /\ Get(inv.m.annotations, kubevirtIdAnnotationKey) = "uid-m2"

IsIPv4(ip) == ip.v4

\* C29: SyncMachine replaces status.addresses by the InternalDNS entry of the
\* VMI's name followed by one InternalIP entry for each resolved IPv4 address,
\* in the order resolved and without the addresses of another family; when
\* the name does not resolve the list is the DNS entry alone, and whether
\* SyncMachine fails does not depend on the resolution.
C29_AddressesFromTheLookup ==
    Done("SyncMachine")
    => LET addresses == inv.m.status.addresses
           resolved == IF inv.lookup.err = NoErr
                       THEN SelectSeq(inv.lookup.ips, IsIPv4)
                       ELSE <<>>
       IN  /\ Len(addresses) = 1 + Len(resolved)
           /\ addresses[1] = [type |-> "InternalDNS", address |-> inv.vm.name]
           /\ \A n \in 1..Len(resolved) :
                addresses[n + 1] = [type |-> "InternalIP", address |-> resolved[n].address]
           /\ inv.mgrErr = NoErr <=> inv.encodes

C29_Witness ==
    /\ Done("SyncMachine")
    /\ inv.lookup.err # NoErr
    /\ inv.encodes
    /\ inv.mgrErr = NoErr
    /\ Len(inv.origin.status.addresses) = 3
    /\ inv.m.status.addresses = << [type |-> "InternalDNS", address |-> "m2"] >>

\* C30: for every ignition payload, one that already has storage.files
\* entries and one without a storage section included, the hostname injection
\* completes and its result has all the file entries of the payload followed
\* by exactly one more entry, the /etc/hostname file of the machine's name.
C30_HostnameFileAlwaysAppended ==
    (inv.op = "addHostnameToUserData" /\ inv.userData.isObject)
    => /\ inv.pc = "done"
       /\ inv.mgrErr = NoErr
       /\ inv.fullUserData.hasStorage
       /\ inv.fullUserData.hasFiles
       /\ inv.fullUserData.files
            = Append(inv.userData.files, HostnameFile(inv.origin.name))

\* the injection into a payload that has storage.files ended in a panic
C30_Witness ==
    /\ inv.op = "addHostnameToUserData"
    /\ inv.userData.isObject
    /\ inv.userData.hasStorage
    /\ inv.userData.hasFiles
    /\ Len(inv.userData.files) = 1
    /\ inv.pc = "panicked"

VMCalls == { "CreateVM", "GetVM", "UpdateVM", "DeleteVM", "GetVMInstance" }

\* the key of the machine's VM in the infra cluster
VMKey == Key(InfraNamespace, inv.origin.name)

\* C31: Create, Update, Delete and Exists of a machine address the same remote
\* VM, the one under (infra namespace, machine name): every VM call carries
\* that key, an Exists whose GetVM was answered reports true exactly when the
\* store holds a VM under it, and the VM that Update and Delete fetch is the
\* VM Create stored under it.
C31_OneKeyForAllOperations ==
    /\ \A n \in 1..Len(inv.calls) :
         inv.calls[n].call \in VMCalls
         => inv.calls[n].namespace = InfraNamespace /\ inv.calls[n].name = inv.origin.name
    /\ (Done("Exists") /\ Issued("GetVM") /\ ~IssuedWith("GetVM", "Transient"))
       => (inv.exists <=> VMKey \in DOMAIN infra.vms)
    /\ (inv.op = "Update" /\ IssuedWith("GetVM", NoErr))
       => /\ inv.existingVM.name = inv.origin.name
          /\ inv.existingVM.namespace = InfraNamespace
          /\ inv.existingVM.uid = "uid-" \o inv.origin.name
    /\ (inv.op = "Delete" /\ IssuedWith("GetVM", NoErr))
       => /\ inv.vm.name = inv.origin.name
          /\ inv.vm.namespace = InfraNamespace
          /\ inv.vm.uid = "uid-" \o inv.origin.name

C31_Witness ==
    /\ Done("Exists")
    /\ IssuedWith("GetVM", NoErr)
    /\ inv.exists
    /\ VMKey \in DOMAIN infra.vms
    /\ infra.vms[VMKey].uid = "uid-m1"
    /\ inv.origin.providerID = Nil

\* C32: when the manager's Create or Update failed before SyncMachine was
\* reached (at the secret, the build, CreateVM, GetVM, UpdateVM or
\* GetVMInstance), the in-memory machine is the copy taken at entry, and so is
\* the stored machine whatever the patches that follow did.
C32_NoChangeBeforeSyncMachine ==
    (inv.op \in { "Create", "Update" } /\ inv.mgrCalled
        /\ inv.mgrErr # NoErr /\ ~Issued("SyncMachine"))
    => /\ inv.m = inv.origin
       /\ machine = inv.origin

C32_Witness ==
    /\ Done("Create")
    /\ IssuedWith("CreateVM", NoErr)
    /\ IssuedWith("GetVMInstance", "NotFound")
    /\ IssuedWith("PatchMachine", NoErr)
    /\ IssuedWith("StatusPatchMachine", NoErr)
    /\ inv.m = inv.origin
    /\ machine = inv.origin

\* the status SyncMachine computed in this invocation, or the status at entry
\* when SyncMachine was not reached
SyncedStatus ==
    IF Issued("SyncMachine")
    THEN SyncMachine(inv.origin, inv.vm, [name |-> inv.vm.name, namespace |-> inv.vm.namespace],
                     inv.lookup, inv.encodes).machine.status
    ELSE inv.origin.status

\* C33: StatusPatchMachine is issued only after a PatchMachine that succeeded,
\* never after one that failed, and the status a successful StatusPatchMachine
\* stores is the status SyncMachine computed before the spec patch, not the
\* status the spec patch read back into the machine.
C33_StatusPatchAfterSpecPatch ==
    /\ Issued("StatusPatchMachine")
       => /\ IssuedWith("PatchMachine", NoErr)
          /\ Position("PatchMachine") < Position("StatusPatchMachine")
    /\ IssuedWith("PatchMachine", "Transient")
       => /\ ~Issued("StatusPatchMachine")
          /\ inv.pc = "done"
          /\ inv.patchErr = "Transient"
          /\ machine = inv.origin
    /\ IssuedWith("StatusPatchMachine", NoErr)
       => /\ machine.status = SyncedStatus
          /\ inv.m.status = SyncedStatus

C33_Witness ==
    /\ Done("Update")
    /\ Issued("SyncMachine")
    /\ IssuedWith("StatusPatchMachine", NoErr)
    /\ inv.origin.status.addresses # SyncedStatus.addresses
    /\ inv.origin.status.providerStatus # SyncedStatus.providerStatus
    /\ machine.status = SyncedStatus

\* C34: when getUserData fails in Actuator.Create (the secret is not found,
\* the read fails otherwise, or the secret has no userData key), the manager's
\* Create is not invoked, no call reaches the infra cluster, no patch is
\* attempted and the machine, in memory and stored, is unchanged.
C34_NoUserDataNoManager ==
    (inv.op = "Create" /\ inv.userDataErr # NoErr)
    => /\ inv.pc = "done"
       /\ ~inv.mgrCalled
       /\ Names(inv.calls) = << "GetSecret" >>
       /\ InfraCalls = {}
       /\ ~Issued("PatchMachine")
       /\ ~Issued("StatusPatchMachine")
       /\ inv.m = inv.origin
       /\ machine = inv.origin

C34_Witness ==
    /\ Done("Create")
    /\ inv.userDataErr = "InvalidMachineConfiguration"
    /\ IssuedWith("GetSecret", NoErr)
    /\ inv.calls[1].name = "worker-user-data"
    /\ ~inv.mgrCalled
    /\ Len(inv.calls) = 1

OwnedAnnotations == { kubevirtIdAnnotationKey, MachineInstanceStateAnnotationName }

\* C35: SyncMachine applied again to the machine it left, with the same VM,
\* VMI and address resolution, leaves the machine as it is; and SyncMachine
\* never changes the name, the namespace, the provider spec, lastUpdated, or a
\* label or annotation other than the ones it writes.
C35_SyncMachineIdempotent ==
    /\ [][ (inv.op = "SyncMachine" /\ inv'.op = "SyncMachine" /\ inv'.vm = inv.vm
              /\ inv'.lookup = inv.lookup /\ inv'.encodes = inv.encodes)
           => /\ inv'.origin = inv.m
              /\ inv'.m = inv.m
              /\ inv'.mgrErr = inv.mgrErr
              /\ machine' = machine ]_vars
    /\ [](Done("SyncMachine")
           => /\ inv.m.name = inv.origin.name
              /\ inv.m.namespace = inv.origin.namespace
              /\ inv.m.providerSpec = inv.origin.providerSpec
              /\ inv.m.status.lastUpdated = inv.origin.status.lastUpdated
              /\ DOMAIN inv.origin.labels \subseteq DOMAIN inv.m.labels
              /\ DOMAIN inv.origin.annotations \subseteq DOMAIN inv.m.annotations
              /\ \A k \in DOMAIN inv.m.labels \ { MachineInstanceTypeLabelName } :
                   k \in DOMAIN inv.origin.labels /\ inv.m.labels[k] = inv.origin.labels[k]
              /\ \A k \in DOMAIN inv.m.annotations \ OwnedAnnotations :
                   k \in DOMAIN inv.origin.annotations
                   /\ inv.m.annotations[k] = inv.origin.annotations[k])

\* a second SyncMachine with the inputs of the first found nothing to change
C35_Witness ==
    /\ Done("SyncMachine")
    /\ inv.origin = inv.m
    /\ inv.vm.name = "m2"
    /\ inv.lookup = ResolvedMany
    /\ inv.encodes
    /\ Len(inv.m.status.addresses) = 3
    /\ inv.m.providerID = "kubevirt://infra-ns/m2"
    /\ Get(inv.m.annotations, "owner") = "team-a"

\* C36: New returns a non-nil Actuator or a non-nil error: when the bootstrap
\* config map cannot be read or lacks the infraID or the namespace key it
\* returns an error, and otherwise an Actuator holding the two values.
C36_NewActuatorOrError ==
    Done("New")
    => IF \/ inv.cMap.err # NoErr
          \/ ConfigMapInfraIDKeyName \notin DOMAIN inv.cMap.value
          \/ ConfigMapInfraNamespaceKeyName \notin DOMAIN inv.cMap.value
       THEN inv.ret # NoErr /\ inv.actuator.isNil
       ELSE /\ inv.ret = NoErr
            /\ ~inv.actuator.isNil
            /\ inv.actuator.infraID = inv.cMap.value[ConfigMapInfraIDKeyName]
            /\ inv.actuator.infraNamespace = inv.cMap.value[ConfigMapInfraNamespaceKeyName]

\* New returned no Actuator and no error
C36_Witness ==
    /\ Done("New")
    /\ inv.cMap.err = "NotFound"
    /\ inv.actuator.isNil
    /\ inv.ret = NoErr

====
